---- MODULE Spec2Model ----
(***************************************************************************)
(* Model of the paragraph / annotation text engine of obsidian-coo         *)
(* (src/editor-ops.ts).                                                    *)
(*                                                                         *)
(* A string is a sequence of one-character strings, a document is a        *)
(* non-empty sequence of lines, line numbers are 0-based as in the code    *)
(* (line n of the code is element n+1 of the sequence).                    *)
(***************************************************************************)
EXTENDS Integers, Sequences, FiniteSets, TLC

VARIABLES
    doc,        \* the editor's document: a sequence of lines
    docBefore,  \* the document as it was when the last operation was called
    call,       \* the last operation called, with its arguments
    result,     \* what the last operation returned
    replaceRangeCalls,  \* the editor.replaceRange calls the last operation made
    flow        \* the rewrite / inspire command in progress, if any

vars == <<doc, docBefore, call, result, replaceRangeCalls, flow>>

-----------------------------------------------------------------------------
(* Bounds of the model *)

MaxLines == 4       \* lines of a document of the locator specification
MaxPayloadLen == 5  \* characters between the markers of a parsed marker line
MaxItemLen == 2     \* characters of one annotation handed to formatAnnotations
MaxItems == 2       \* annotations of one list handed to formatAnnotations
MaxDocLines == 3    \* lines of a document before appendAnnotations is called
MaxLineLen == 12    \* characters of a line before appendAnnotations is called
MaxNewItems == 2    \* annotations handed to one appendAnnotations call

-----------------------------------------------------------------------------
(* Values *)

\* The null of a `T | null` return type.
NULL == [null |-> TRUE]

\* A call record: operation name, line argument, list argument, text argument.
Call(op, line, items, text) ==
    [op |-> op, line |-> line, items |-> items, text |-> text]

NoCall == Call("none", 0, <<>>, <<>>)

\* No command is running.
Idle == [pc |-> "idle"]

-----------------------------------------------------------------------------
(* Strings *)

\* Characters matched by \s and stripped by String.prototype.trim.
IsWhitespace(c) == c \in {" ", "\n", "\t"}

IsDigit(c) == c \in {"0", "1", "2", "3", "4", "5", "6", "7", "8", "9"}

\* s.slice(from) for 0 <= from.
SliceFrom(s, from) == SubSeq(s, from + 1, Len(s))

RECURSIVE trimStart(_)
trimStart(s) ==
    IF s # <<>> /\ IsWhitespace(Head(s)) THEN trimStart(Tail(s)) ELSE s

RECURSIVE trimEnd(_)
trimEnd(s) ==
    IF s # <<>> /\ IsWhitespace(s[Len(s)])
    THEN trimEnd(SubSeq(s, 1, Len(s) - 1))
    ELSE s

trim(s) == trimEnd(trimStart(s))

startsWith(s, p) == Len(s) >= Len(p) /\ SubSeq(s, 1, Len(p)) = p

endsWith(s, p) ==
    Len(s) >= Len(p) /\ SubSeq(s, Len(s) - Len(p) + 1, Len(s)) = p

\* xs.join(sep)
RECURSIVE join(_, _)
join(xs, sep) ==
    IF xs = <<>> THEN <<>>
    ELSE IF Len(xs) = 1 THEN xs[1]
    ELSE xs[1] \o sep \o join(Tail(xs), sep)

\* s.split(c) for a one-character separator: always at least one piece.
RECURSIVE split(_, _)
split(s, c) ==
    IF \A i \in 1..Len(s) : s[i] # c THEN <<s>>
    ELSE LET i == CHOOSE k \in 1..Len(s) :
                      s[k] = c /\ \A j \in 1..(k - 1) : s[j] # c
         IN  <<SubSeq(s, 1, i - 1)>> \o split(SubSeq(s, i + 1, Len(s)), c)

\* xs.filter(s => s.length > 0)
RECURSIVE filterNonEmpty(_)
filterNonEmpty(xs) ==
    IF xs = <<>> THEN <<>>
    ELSE IF Len(Head(xs)) > 0 THEN <<Head(xs)>> \o filterNonEmpty(Tail(xs))
    ELSE filterNonEmpty(Tail(xs))

\* xs.includes(x)
includes(xs, x) == \E i \in 1..Len(xs) : xs[i] = x

-----------------------------------------------------------------------------
(* The editor (Obsidian's Editor interface) *)

lineCount(d) == Len(d)

getLine(d, n) == d[n + 1]

\* editor.replaceRange(text, from, to): the characters from (fromLine,
\* fromCh) up to (toLine, toCh) are replaced by text; line breaks in text
\* start new lines.
replaceRange(d, text, fromLine, fromCh, toLine, toCh) ==
    LET head == SubSeq(getLine(d, fromLine), 1, fromCh)
        tail == SliceFrom(getLine(d, toLine), toCh)
    IN  SubSeq(d, 1, fromLine)
          \o split(head \o text \o tail, "\n")
          \o SubSeq(d, toLine + 2, Len(d))

\* The arguments of one editor.replaceRange(text, from, to) call; a call
\* without `to` has to = from.
RangeCall(text, fromLine, fromCh, toLine, toCh) ==
    [text |-> text, fromLine |-> fromLine, fromCh |-> fromCh,
     toLine |-> toLine, toCh |-> toCh]

\* The document after the replaceRange calls, made in order.
RECURSIVE applyCalls(_, _)
applyCalls(d, calls) ==
    IF calls = <<>> THEN d
    ELSE LET c == Head(calls)
         IN  applyCalls(replaceRange(d, c.text, c.fromLine, c.fromCh,
                                     c.toLine, c.toCh),
                        Tail(calls))

-----------------------------------------------------------------------------
(* Line classifier *)

\* Mutant: the line is not trimmed before the marker test.
isAnnotationLine_noTrim(line) ==
    startsWith(line, <<"%", "%">>) /\ endsWith(line, <<"%", "%">>)

isAnnotationLine(line) ==
    LET trimmed == trim(line)
    IN  startsWith(trimmed, <<"%", "%">>) /\ endsWith(trimmed, <<"%", "%">>)

isEmptyLine(line) == Len(trim(line)) = 0

\* Number of leading digits of s.
RECURSIVE DigitRun(_)
DigitRun(s) ==
    IF s # <<>> /\ IsDigit(Head(s)) THEN 1 + DigitRun(Tail(s)) ELSE 0

\* Length of the match of (?:[-*+]|\d+\.) at the start of s, 0 if none.
ListMarkerLen(s) ==
    IF s = <<>> THEN 0
    ELSE IF Head(s) \in {"-", "*", "+"} THEN 1
    ELSE LET n == DigitRun(s)
         IN  IF n > 0 /\ Len(s) > n /\ s[n + 1] = "." THEN n + 1 ELSE 0

\* /^\s*(?:[-*+]|\d+\.)\s/.test(line)
isListItem(line) ==
    LET rest == trimStart(line)
        m    == ListMarkerLen(rest)
    IN  m > 0 /\ Len(rest) > m /\ IsWhitespace(rest[m + 1])

-----------------------------------------------------------------------------
(* Paragraph locator *)

\* The backward loop of findParagraphBounds.
RECURSIVE scanStartLine(_, _)
scanStartLine(d, startLine) ==
    IF startLine > 0
       /\ ~(isEmptyLine(getLine(d, startLine - 1))
            \/ isAnnotationLine(getLine(d, startLine - 1)))
    THEN scanStartLine(d, startLine - 1)
    ELSE startLine

\* Mutant: the forward loop also stops in front of a list item.
RECURSIVE scanEndLine_stopAtListItem(_, _)
scanEndLine_stopAtListItem(d, endLine) ==
    IF endLine < lineCount(d) - 1
       /\ ~(isEmptyLine(getLine(d, endLine + 1))
            \/ isAnnotationLine(getLine(d, endLine + 1))
            \/ isListItem(getLine(d, endLine + 1)))
    THEN scanEndLine_stopAtListItem(d, endLine + 1)
    ELSE endLine

\* The forward loop of findParagraphBounds.
RECURSIVE scanEndLine(_, _)
scanEndLine(d, endLine) ==
    IF endLine < lineCount(d) - 1
       /\ ~(isEmptyLine(getLine(d, endLine + 1))
            \/ isAnnotationLine(getLine(d, endLine + 1)))
    THEN scanEndLine(d, endLine + 1)
    ELSE endLine

\* Mutant: no early return for a list item.
findParagraphBounds_noListItemCase(d, lineNum) ==
    LET currentLine == getLine(d, lineNum)
    IN  IF isEmptyLine(currentLine) \/ isAnnotationLine(currentLine)
        THEN NULL
        ELSE [startLine |-> scanStartLine(d, lineNum),
              endLine |-> scanEndLine(d, lineNum)]

findParagraphBounds(d, lineNum) ==
    LET currentLine == getLine(d, lineNum)
    IN  IF isEmptyLine(currentLine) \/ isAnnotationLine(currentLine)
        THEN NULL
        ELSE IF isListItem(currentLine)
        THEN [startLine |-> lineNum, endLine |-> lineNum]
        ELSE [startLine |-> scanStartLine(d, lineNum),
              endLine |-> scanEndLine(d, lineNum)]

\* Mutant: the fallback to the line above is taken for a blank line too.
findParagraphBoundsNear_fallbackOnBlank(d, lineNum) ==
    LET bounds == findParagraphBounds(d, lineNum)
    IN  IF bounds # NULL THEN bounds
        ELSE IF lineNum > 0
        THEN findParagraphBounds(d, lineNum - 1)
        ELSE NULL

\* Mutant: from a marker line below a blank line, the fallback goes one line
\* further up.
findParagraphBoundsNear_skipBlankAbove(d, lineNum) ==
    LET bounds == findParagraphBounds(d, lineNum)
    IN  IF bounds # NULL THEN bounds
        ELSE IF lineNum > 0 /\ isAnnotationLine(getLine(d, lineNum))
        THEN IF findParagraphBounds(d, lineNum - 1) # NULL \/ lineNum = 1
             THEN findParagraphBounds(d, lineNum - 1)
             ELSE findParagraphBounds(d, lineNum - 2)
        ELSE NULL

findParagraphBoundsNear(d, lineNum) ==
    LET bounds == findParagraphBounds(d, lineNum)
    IN  IF bounds # NULL THEN bounds
        ELSE IF lineNum > 0 /\ isAnnotationLine(getLine(d, lineNum))
        THEN findParagraphBounds(d, lineNum - 1)
        ELSE NULL

-----------------------------------------------------------------------------
(* Annotation codec *)

\* Mutant: a blank line between the paragraph and the marker line is skipped.
findAnnotationLine_skipBlank(d, paragraphEndLine) ==
    LET nextLine == paragraphEndLine + 1
    IN  IF nextLine >= lineCount(d) THEN NULL
        ELSE IF isAnnotationLine(getLine(d, nextLine))
        THEN [line |-> nextLine]
        ELSE IF isEmptyLine(getLine(d, nextLine))
                /\ nextLine + 1 < lineCount(d)
                /\ isAnnotationLine(getLine(d, nextLine + 1))
        THEN [line |-> nextLine + 1]
        ELSE NULL

\* Returns NULL or [line |-> n].
findAnnotationLine(d, paragraphEndLine) ==
    LET nextLine == paragraphEndLine + 1
    IN  IF nextLine >= lineCount(d) THEN NULL
        ELSE IF isAnnotationLine(getLine(d, nextLine))
        THEN [line |-> nextLine]
        ELSE NULL

\* line.trim().slice(2, -2).trim()
annotationPayload(line) ==
    LET trimmed == trim(line)
    IN  trim(SubSeq(trimmed, 3, Len(trimmed) - 2))

\* Mutant: the pieces are not trimmed.
mapTrim_identity(pieces) == pieces

\* pieces.map(s => s.trim())
mapTrim(pieces) == [i \in 1..Len(pieces) |-> trim(pieces[i])]

\* Mutant: empty pieces are kept.
parseAnnotations_keepEmpty(line) ==
    LET inner == annotationPayload(line)
    IN  IF inner = <<>> THEN <<>>
        ELSE mapTrim(split(inner, ","))

parseAnnotations(line) ==
    LET inner == annotationPayload(line)
    IN  IF inner = <<>> THEN <<>>
        ELSE filterNonEmpty(mapTrim(split(inner, ",")))

formatAnnotations(annotations) ==
    <<"%", "%">> \o join(annotations, <<",", " ">>) \o <<"%", "%">>

\* The loop of appendAnnotations: push every new annotation that the merged
\* list does not include yet.
RECURSIVE mergeAnnotations(_, _)
mergeAnnotations(merged, newAnnotations) ==
    IF newAnnotations = <<>> THEN merged
    ELSE IF ~includes(merged, Head(newAnnotations))
    THEN mergeAnnotations(Append(merged, Head(newAnnotations)),
                          Tail(newAnnotations))
    ELSE mergeAnnotations(merged, Tail(newAnnotations))

\* Mutant: without an annotation line, the line break and the new line are
\* written by two calls.
appendAnnotationsCalls_twoCalls(d, paragraphEndLine, newAnnotations) ==
    LET existingLineNum == findAnnotationLine(d, paragraphEndLine)
    IN  IF existingLineNum # NULL
        THEN LET existingLine == getLine(d, existingLineNum.line)
                 existing     == parseAnnotations(existingLine)
                 merged       == mergeAnnotations(existing, newAnnotations)
                 newLine      == formatAnnotations(merged)
             IN  << RangeCall(newLine,
                              existingLineNum.line, 0,
                              existingLineNum.line, Len(existingLine)) >>
        ELSE LET lineText == getLine(d, paragraphEndLine)
             IN  << RangeCall(<<"\n">>,
                              paragraphEndLine, Len(lineText),
                              paragraphEndLine, Len(lineText)),
                    RangeCall(formatAnnotations(newAnnotations),
                              paragraphEndLine + 1, 0,
                              paragraphEndLine + 1, 0) >>

\* The replaceRange calls of appendAnnotations(editor, paragraphEndLine,
\* newAnnotations).
appendAnnotationsCalls(d, paragraphEndLine, newAnnotations) ==
    LET existingLineNum == findAnnotationLine(d, paragraphEndLine)
    IN  IF existingLineNum # NULL
        THEN LET existingLine == getLine(d, existingLineNum.line)
                 existing     == parseAnnotations(existingLine)
                 merged       == mergeAnnotations(existing, newAnnotations)
                 newLine      == formatAnnotations(merged)
             IN  << RangeCall(newLine,
                              existingLineNum.line, 0,
                              existingLineNum.line, Len(existingLine)) >>
        ELSE LET lineText == getLine(d, paragraphEndLine)
                 newLine  == <<"\n">> \o formatAnnotations(newAnnotations)
             IN  << RangeCall(newLine,
                              paragraphEndLine, Len(lineText),
                              paragraphEndLine, Len(lineText)) >>

\* The document after appendAnnotations(editor, paragraphEndLine,
\* newAnnotations).
appendAnnotations(d, paragraphEndLine, newAnnotations) ==
    applyCalls(d, appendAnnotationsCalls(d, paragraphEndLine, newAnnotations))

-----------------------------------------------------------------------------
(* Markdown prefix, instruction extractor, response formatter *)

\* Length of the match of \s* at the start of s.
RECURSIVE WhitespaceRun(_)
WhitespaceRun(s) ==
    IF s # <<>> /\ IsWhitespace(Head(s)) THEN 1 + WhitespaceRun(Tail(s)) ELSE 0

\* Length of the run of # at the start of s.
RECURSIVE HashRun(_)
HashRun(s) ==
    IF s # <<>> /\ Head(s) = "#" THEN 1 + HashRun(Tail(s)) ELSE 0

\* Length of the match of marker\s+ at the start of s, where the marker
\* takes the first m characters; 0 if there is no match.
WithWhitespace(s, m) ==
    LET ws == WhitespaceRun(SliceFrom(s, m))
    IN  IF m > 0 /\ ws > 0 THEN m + ws ELSE 0

\* Mutant: any number of # makes a heading prefix.
markdownPrefixLength_anyHashRun(text) ==
    LET indent  == WhitespaceRun(text)
        rest    == SliceFrom(text, indent)
        list    == WithWhitespace(rest, ListMarkerLen(rest))
        hashes  == HashRun(text)
        heading == WithWhitespace(text, hashes)
        quote   == WithWhitespace(text,
                                  IF text # <<>> /\ Head(text) = ">"
                                  THEN 1 ELSE 0)
    IN  IF list > 0 THEN indent + list
        ELSE IF heading > 0 THEN heading
        ELSE quote

\* Length of the match of
\* /^(\s*(?:[-*+]|\d+\.)\s+|#{1,6}\s+|>\s+)/ in text, 0 if there is none.
markdownPrefixLength(text) ==
    LET indent  == WhitespaceRun(text)
        rest    == SliceFrom(text, indent)
        list    == WithWhitespace(rest, ListMarkerLen(rest))
        hashes  == HashRun(text)
        heading == WithWhitespace(text, IF hashes <= 6 THEN hashes ELSE 0)
        quote   == WithWhitespace(text,
                                  IF text # <<>> /\ Head(text) = ">"
                                  THEN 1 ELSE 0)
    IN  IF list > 0 THEN indent + list
        ELSE IF heading > 0 THEN heading
        ELSE quote

extractMarkdownPrefix(text) ==
    LET n == markdownPrefixLength(text)
    IN  [prefix |-> SubSeq(text, 1, n), content |-> SliceFrom(text, n)]

\* Position of the first } after position i of text, 0 if there is none.
FirstClose(text, i) ==
    IF \E j \in (i + 1)..Len(text) : text[j] = "}"
    THEN CHOOSE j \in (i + 1)..Len(text) :
             /\ text[j] = "}"
             /\ \A k \in (i + 1)..(j - 1) : text[k] # "}"
    ELSE 0

\* /\{([^}]+)\}/ matches at position i of text.
MatchesAt(text, i) ==
    /\ text[i] = "{"
    /\ i < Len(text)
    /\ text[i + 1] # "}"
    /\ FirstClose(text, i) # 0

\* regex.exec(text) with the search starting at position from: the leftmost
\* match as [index, end] (first and last position), or NULL.
regexExec(text, from) ==
    IF \E i \in from..Len(text) : MatchesAt(text, i)
    THEN LET i == CHOOSE k \in from..Len(text) :
                      /\ MatchesAt(text, k)
                      /\ \A j \in from..(k - 1) : ~MatchesAt(text, j)
         IN  [index |-> i, end |-> FirstClose(text, i)]
    ELSE NULL

\* The while loop of extractInstruction: the last match found.
RECURSIVE lastMatchFrom(_, _, _)
lastMatchFrom(text, from, lastMatch) ==
    LET match == regexExec(text, from)
    IN  IF match = NULL THEN lastMatch
        ELSE lastMatchFrom(text, match.end + 1, match)

\* NULL or [cleanedText, instruction].
extractInstruction(text) ==
    LET lastMatch == lastMatchFrom(text, 1, NULL)
    IN  IF lastMatch = NULL THEN NULL
        ELSE LET group == SubSeq(text, lastMatch.index + 1, lastMatch.end - 1)
                 instruction == trim(group)
                 before == trimEnd(SubSeq(text, 1, lastMatch.index - 1))
                 after  == SliceFrom(text, lastMatch.end)
             IN  IF group = <<>> THEN NULL
                 ELSE IF instruction = <<>> THEN NULL
                 ELSE [cleanedText |-> trimEnd(before \o after),
                       instruction |-> instruction]

\* " ".repeat(n)
spaces(n) == [i \in 1..n |-> " "]

\* Mutant: every line gets a marker, also one that has it already.
formatInspireResponse_alwaysMarker(responseText, indentSize) ==
    LET indent == spaces(indentSize)
        lines  == filterNonEmpty(mapTrim(split(responseText, "\n")))
    IN  [i \in 1..Len(lines) |-> indent \o <<"-", " ">> \o lines[i]]

formatInspireResponse(responseText, indentSize) ==
    LET indent == spaces(indentSize)
        lines  == filterNonEmpty(mapTrim(split(responseText, "\n")))
    IN  [i \in 1..Len(lines) |->
            indent \o (IF startsWith(lines[i], <<"-", " ">>)
                       THEN lines[i]
                       ELSE <<"-", " ">> \o lines[i])]

-----------------------------------------------------------------------------
(* Document mutator *)

\* The lines startLine..endLine joined by line breaks.
getParagraphText(d, startLine, endLine) ==
    join(SubSeq(d, startLine + 1, endLine + 1), <<"\n">>)

\* Mutant: an annotation line below the paragraph is replaced with it.
replaceParagraphWithInspirationCalls_throughAnnotation(d, startLine, endLine, newParagraphText, bulletLines) ==
    LET annotationLine == findAnnotationLine(d, endLine)
        lastLine       == IF annotationLine # NULL
                          THEN annotationLine.line
                          ELSE endLine
        lastLineText   == getLine(d, lastLine)
        replacement    == newParagraphText \o <<"\n">>
                              \o join(bulletLines, <<"\n">>)
    IN  << RangeCall(replacement, startLine, 0,
                     lastLine, Len(lastLineText)) >>

\* The replaceRange calls of replaceParagraphWithInspiration.
replaceParagraphWithInspirationCalls(d, startLine, endLine, newParagraphText, bulletLines) ==
    LET lastLineText == getLine(d, endLine)
        replacement  == newParagraphText \o <<"\n">>
                            \o join(bulletLines, <<"\n">>)
    IN  << RangeCall(replacement, startLine, 0,
                     endLine, Len(lastLineText)) >>

\* Mutant: the range ends at the annotation line only when that line lies
\* below the paragraph.
replaceParagraphAndRemoveAnnotationsCalls_max(d, startLine, endLine, annotationLine, newText) ==
    LET lastLine     == IF annotationLine # NULL
                           /\ annotationLine.line > endLine
                        THEN annotationLine.line
                        ELSE endLine
        lastLineText == getLine(d, lastLine)
    IN  << RangeCall(newText, startLine, 0, lastLine, Len(lastLineText)) >>

\* The replaceRange calls of replaceParagraphAndRemoveAnnotations;
\* annotationLine is NULL or [line |-> n].
replaceParagraphAndRemoveAnnotationsCalls(d, startLine, endLine, annotationLine, newText) ==
    LET lastLine     == IF annotationLine # NULL
                        THEN annotationLine.line
                        ELSE endLine
        lastLineText == getLine(d, lastLine)
    IN  << RangeCall(newText, startLine, 0, lastLine, Len(lastLineText)) >>

-----------------------------------------------------------------------------
(* Inputs *)

\* Every string of at most n characters over the alphabet.
Strings(alphabet, n) == UNION {[1..k -> alphabet] : k \in 0..n}

\* Every list of at most n elements of the set.
Lists(set, n) == UNION {[1..k -> set] : k \in 0..n}

\* The lines of the documents of the locator specification: blank, plain,
\* unordered and indented ordered list items, marker lines, and a plain line
\* that only looks like a list item.
LocatorLines ==
    { <<" ">>,
      <<"a">>,
      <<"-", "a">>,
      <<"-", " ", "a">>,
      <<" ", "1", ".", " ", "a">>,
      <<"%", "%", "a", "%", "%">>,
      <<" ", "%", "%", " ">> }

LocatorDocs == UNION {[1..k -> LocatorLines] : k \in 1..MaxLines}

-----------------------------------------------------------------------------
(* Locator specification: the read-only operations on every document *)

InitLocator ==
    /\ doc \in LocatorDocs
    /\ docBefore = doc
    /\ call = NoCall
    /\ result = NULL
    /\ replaceRangeCalls = <<>>
    /\ flow = Idle

FindParagraphBounds ==
    \E lineNum \in 0..(lineCount(doc) - 1) :
        /\ call' = Call("findParagraphBounds", lineNum, <<>>, <<>>)
        /\ result' = findParagraphBounds(doc, lineNum)
        /\ docBefore' = doc
        /\ replaceRangeCalls' = <<>>
        /\ UNCHANGED <<doc, flow>>

FindParagraphBoundsNear ==
    \E lineNum \in 0..(lineCount(doc) - 1) :
        /\ call' = Call("findParagraphBoundsNear", lineNum, <<>>, <<>>)
        /\ result' = findParagraphBoundsNear(doc, lineNum)
        /\ docBefore' = doc
        /\ replaceRangeCalls' = <<>>
        /\ UNCHANGED <<doc, flow>>

FindAnnotationLine ==
    \E paragraphEndLine \in 0..(lineCount(doc) - 1) :
        /\ call' = Call("findAnnotationLine", paragraphEndLine, <<>>, <<>>)
        /\ result' = findAnnotationLine(doc, paragraphEndLine)
        /\ docBefore' = doc
        /\ replaceRangeCalls' = <<>>
        /\ UNCHANGED <<doc, flow>>

NextLocator ==
    \/ FindParagraphBounds
    \/ FindParagraphBoundsNear
    \/ FindAnnotationLine

SpecLocator == InitLocator /\ [][NextLocator]_vars

-----------------------------------------------------------------------------
(* Properties of the locator *)

\* The line has no character that is not whitespace.
AllWhitespace(line) == \A i \in 1..Len(line) : IsWhitespace(line[i])

\* Ignoring the whitespace around it, the line starts with %% and ends
\* with %% (the two pairs may overlap).
MarkerShaped(line) ==
    \E i, j \in 1..Len(line) :
        /\ i < j
        /\ \A k \in 1..(i - 1) : IsWhitespace(line[k])
        /\ \A k \in (j + 1)..Len(line) : IsWhitespace(line[k])
        /\ line[i] = "%" /\ line[i + 1] = "%"
        /\ line[j - 1] = "%" /\ line[j] = "%"

\* A line that can belong to a paragraph.
IsParagraphLine(line) == ~AllWhitespace(line) /\ ~MarkerShaped(line)

C2_ListItemAlone ==
    ( /\ call.op = "findParagraphBounds"
      /\ isListItem(getLine(doc, call.line)) )
    => result = [startLine |-> call.line, endLine |-> call.line]

\* A list item between two paragraph lines was located.
C2_Witness ==
    /\ call.op = "findParagraphBounds"
    /\ isListItem(getLine(doc, call.line))
    /\ 0 < call.line
    /\ call.line < lineCount(doc) - 1
    /\ IsParagraphLine(getLine(doc, call.line - 1))
    /\ IsParagraphLine(getLine(doc, call.line + 1))
    /\ result = [startLine |-> call.line, endLine |-> call.line]

\* C3: bounds of more than one line contain no list item.
C3_NoListItemInMultiLine ==
    ( /\ call.op = "findParagraphBounds"
      /\ result # NULL
      /\ result.startLine < result.endLine )
    => \A k \in result.startLine..result.endLine :
           ~isListItem(getLine(doc, k))

\* C4: findParagraphBounds returns null exactly on a blank line and on an
\* annotation-marker line.
C4_NullIffBlankOrMarker ==
    call.op = "findParagraphBounds"
    => ( result = NULL
         <=> ( AllWhitespace(getLine(doc, call.line))
               \/ MarkerShaped(getLine(doc, call.line)) ) )

\* Null was returned for a marker line that has whitespace around the
\* markers.
C4_Witness ==
    /\ call.op = "findParagraphBounds"
    /\ result = NULL
    /\ MarkerShaped(getLine(doc, call.line))
    /\ IsWhitespace(getLine(doc, call.line)[1])

\* C5: findParagraphBoundsNear is findParagraphBounds on a paragraph line,
\* findParagraphBounds of the line above on a marker line below line 0, and
\* null in every other case.
C5_NearFallsBackOnMarkerOnly ==
    call.op = "findParagraphBoundsNear"
    => LET i    == call.line
           line == getLine(doc, i)
       IN  /\ IsParagraphLine(line)
               => result = findParagraphBounds(doc, i) /\ result # NULL
           /\ (MarkerShaped(line) /\ i > 0)
               => result = findParagraphBounds(doc, i - 1)
           /\ (AllWhitespace(line) \/ i = 0) /\ ~IsParagraphLine(line)
               => result = NULL
           /\ ( /\ MarkerShaped(line)
                /\ i > 0
                /\ ~IsParagraphLine(getLine(doc, i - 1)) )
               => result = NULL

\* The fallback was taken from a marker line and found a paragraph of
\* several lines above it.
C5_Witness ==
    /\ call.op = "findParagraphBoundsNear"
    /\ MarkerShaped(getLine(doc, call.line))
    /\ result # NULL
    /\ result.startLine < result.endLine

\* C8: findAnnotationLine(doc, e) is e+1 exactly when line e+1 exists and is
\* a marker line, and null otherwise.
C8_OnlyTheNextLine ==
    call.op = "findAnnotationLine"
    => LET e == call.line
       IN  IF e + 1 < lineCount(doc) /\ MarkerShaped(getLine(doc, e + 1))
           THEN result = [line |-> e + 1]
           ELSE result = NULL

\* Null was returned although a marker line stands two lines below.
C8_Witness ==
    /\ call.op = "findAnnotationLine"
    /\ result = NULL
    /\ call.line + 2 < lineCount(doc)
    /\ MarkerShaped(getLine(doc, call.line + 2))

-----------------------------------------------------------------------------
(* Codec specification: parseAnnotations and formatAnnotations on every     *)
(* marker line and every list of annotations within the bounds              *)

PayloadAlphabet == {"a", " ", ",", "%"}

\* Every marker line: a payload between two %% pairs, with or without
\* whitespace around the line, and the two lines whose pairs overlap.
MarkerLines ==
    { pad \o <<"%", "%">> \o payload \o <<"%", "%">> \o pad :
          payload \in Strings(PayloadAlphabet, MaxPayloadLen),
          pad \in {<<>>, <<" ">>} }
    \cup { <<"%", "%">>, <<"%", "%", "%">> }

ItemAlphabet == {"a", " ", ","}

\* Every short string, trimmed or not, a phrase of two words and a phrase
\* made of the marker character.
Annotations ==
    Strings(ItemAlphabet, MaxItemLen) \cup { <<"a", " ", "b">>, <<"%">> }

AnnotationLists == Lists(Annotations, MaxItems)

\* The input of the run is either a marker line to parse or a list of
\* annotations to format.
InitCodec ==
    /\ doc = << <<>> >>
    /\ docBefore = doc
    /\ call \in {Call("none", 0, <<>>, line) : line \in MarkerLines}
                \cup {Call("none", 0, annotations, <<>>) :
                          annotations \in AnnotationLists}
    /\ result = NULL
    /\ replaceRangeCalls = <<>>
    /\ flow = Idle

ParseAnnotations ==
    /\ call.op = "none"
    /\ call.text # <<>>
    /\ call' = [call EXCEPT !.op = "parseAnnotations"]
    /\ result' = parseAnnotations(call.text)
    /\ replaceRangeCalls' = <<>>
    /\ UNCHANGED <<doc, docBefore, flow>>

FormatAnnotations ==
    /\ call.op = "none"
    /\ call.text = <<>>
    /\ call' = [call EXCEPT !.op = "formatAnnotations"]
    /\ result' = formatAnnotations(call.items)
    /\ replaceRangeCalls' = <<>>
    /\ UNCHANGED <<doc, docBefore, flow>>

\* parseAnnotations applied to the line formatAnnotations has just returned.
ParseFormatted ==
    /\ call.op = "formatAnnotations"
    /\ call' = [call EXCEPT !.op = "parseFormatted", !.text = result]
    /\ result' = parseAnnotations(result)
    /\ replaceRangeCalls' = <<>>
    /\ UNCHANGED <<doc, docBefore, flow>>

NextCodec ==
    \/ ParseAnnotations
    \/ FormatAnnotations
    \/ ParseFormatted

SpecCodec == InitCodec /\ [][NextCodec]_vars

-----------------------------------------------------------------------------
(* Properties of the codec *)

\* A non-empty string without whitespace at either end.
IsTrimmedNonEmpty(s) ==
    /\ Len(s) > 0
    /\ ~IsWhitespace(s[1])
    /\ ~IsWhitespace(s[Len(s)])

HasComma(s) == \E i \in 1..Len(s) : s[i] = ","

\* C6 as stated: parseAnnotations(formatAnnotations(xs)) = xs for every list
\* xs of non-empty trimmed strings.
C6_RoundTrip ==
    ( /\ call.op = "parseFormatted"
      /\ \A i \in 1..Len(call.items) : IsTrimmedNonEmpty(call.items[i]) )
    => result = call.items

\* C6 amended: parseAnnotations(formatAnnotations(xs)) = xs for every list
\* xs of non-empty trimmed strings that contain no comma.
C6_RoundTripWithoutComma ==
    ( /\ call.op = "parseFormatted"
      /\ \A i \in 1..Len(call.items) :
             IsTrimmedNonEmpty(call.items[i]) /\ ~HasComma(call.items[i]) )
    => result = call.items

\* A list of two annotations, one with a space inside, went through format
\* and parse.
C6_Witness ==
    /\ call.op = "parseFormatted"
    /\ Len(call.items) = 2
    /\ \A i \in 1..2 :
           IsTrimmedNonEmpty(call.items[i]) /\ ~HasComma(call.items[i])
    /\ \E i \in 1..2 : \E k \in 1..Len(call.items[i]) :
           call.items[i][k] = " "
    /\ result = call.items

\* The text of a marker line between its outer %% pairs.
Payload(line) ==
    LET nonWs == {i \in 1..Len(line) : ~IsWhitespace(line[i])}
        first == CHOOSE i \in nonWs : \A k \in nonWs : i <= k
        last  == CHOOSE i \in nonWs : \A k \in nonWs : k <= i
    IN  SubSeq(line, first + 2, last - 2)

\* The entries stand in the payload at the positions starts, in order, with
\* a comma between two consecutive ones, and the payload has nothing but
\* whitespace and commas outside them.
PiecesAt(payload, entries, starts) ==
    /\ \A k \in 1..Len(entries) :
           /\ starts[k] + Len(entries[k]) - 1 <= Len(payload)
           /\ SubSeq(payload, starts[k], starts[k] + Len(entries[k]) - 1)
                  = entries[k]
    /\ \A k \in 1..(Len(entries) - 1) :
           \E c \in (starts[k] + Len(entries[k]))..(starts[k + 1] - 1) :
               payload[c] = ","
    /\ \A i \in 1..Len(payload) :
           \/ IsWhitespace(payload[i])
           \/ payload[i] = ","
           \/ \E k \in 1..Len(entries) :
                  starts[k] <= i /\ i < starts[k] + Len(entries[k])

\* C7: parseAnnotations returns the comma-separated pieces of the payload,
\* in order, trimmed, without the empty ones: every entry is non-empty,
\* trimmed and comma-free; an empty or blank payload gives the empty list;
\* formatAnnotations of the empty list is %%%%.
C7_TrimmedNonEmptyPieces ==
    /\ call.op = "parseAnnotations"
       => LET payload == Payload(call.text)
          IN  /\ \A k \in 1..Len(result) :
                     IsTrimmedNonEmpty(result[k]) /\ ~HasComma(result[k])
              /\ \E starts \in [1..Len(result) -> 1..Len(payload)] :
                     PiecesAt(payload, result, starts)
              /\ AllWhitespace(payload) => result = <<>>
    /\ (call.op = "formatAnnotations" /\ call.items = <<>>)
       => result = <<"%", "%", "%", "%">>

\* Two entries came out of a payload with an empty piece between or after
\* them.
C7_Witness ==
    /\ call.op = "parseAnnotations"
    /\ Len(result) = 2
    /\ Cardinality({i \in 1..Len(call.text) : call.text[i] = ","}) >= 2

-----------------------------------------------------------------------------
(* Append specification: appendAnnotations called, any number of times, on  *)
(* a document, with the phrases a composer session can pick                 *)

\* The lines of the initial documents: plain, blank, a marker line, and a
\* marker line with whitespace around it and a repeated entry.
AppendLines ==
    { <<"a">>,
      <<" ">>,
      <<"%", "%", "a", "%", "%">>,
      <<" ", "%", "%", "b", ",", "b", "%", "%", " ">> }

AppendDocs == UNION {[1..k -> AppendLines] : k \in 1..MaxDocLines}

\* A picked phrase is a non-empty trimmed selection of the response text:
\* it may hold a comma or a line break.
Phrases ==
    { <<"a">>,
      <<"b">>,
      <<"a", ",", "b">>,
      <<"a", "\n", "b">> }

PhraseLists == Lists(Phrases, MaxNewItems)

InitAppend ==
    /\ doc \in AppendDocs
    /\ docBefore = doc
    /\ call = NoCall
    /\ result = NULL
    /\ replaceRangeCalls = <<>>
    /\ flow = Idle

AppendAnnotations ==
    /\ lineCount(doc) <= MaxDocLines
    /\ \A i \in 1..Len(doc) : Len(doc[i]) <= MaxLineLen
    /\ \E paragraphEndLine \in 0..(lineCount(doc) - 1),
          newAnnotations \in PhraseLists :
        /\ call' = Call("appendAnnotations", paragraphEndLine,
                        newAnnotations, <<>>)
        /\ docBefore' = doc
        /\ replaceRangeCalls' =
               appendAnnotationsCalls(doc, paragraphEndLine, newAnnotations)
        /\ doc' = applyCalls(doc, replaceRangeCalls')
        /\ result' = NULL
        /\ UNCHANGED flow

NextAppend == AppendAnnotations

SpecAppend == InitAppend /\ [][NextAppend]_vars

-----------------------------------------------------------------------------
(* Properties of appendAnnotations *)

\* Line e+1 of the document before the call exists and is a marker line.
HadAnnotationLine ==
    /\ call.line + 1 < lineCount(docBefore)
    /\ MarkerShaped(getLine(docBefore, call.line + 1))

\* The items of new, in order, that are neither in existing nor earlier in
\* new.
Added(existing, new) ==
    LET fresh == {i \in 1..Len(new) :
                      /\ ~includes(existing, new[i])
                      /\ \A j \in 1..(i - 1) : new[j] # new[i]}
        nth(k) == CHOOSE i \in fresh :
                      Cardinality({j \in fresh : j < i}) = k - 1
    IN  [k \in 1..Cardinality(fresh) |-> new[nth(k)]]

\* C9: when line e+1 is a marker line, appendAnnotations replaces exactly
\* that line with formatAnnotations(existing ++ added); the line count is
\* unchanged and every other line keeps its content.
C9_MergeReplacesOneLine ==
    (call.op = "appendAnnotations" /\ HadAnnotationLine)
    => LET e        == call.line
           existing == parseAnnotations(getLine(docBefore, e + 1))
       IN  /\ lineCount(doc) = lineCount(docBefore)
           /\ getLine(doc, e + 1)
                  = formatAnnotations(existing
                                        \o Added(existing, call.items))
           /\ \A j \in 0..(lineCount(doc) - 1) :
                  j # e + 1 => getLine(doc, j) = getLine(docBefore, j)

\* C10: when line e+1 does not exist or is not a marker line,
\* appendAnnotations inserts one line, formatAnnotations(newItems), after
\* line e: the line count grows by one, lines 0..e are unchanged and every
\* line below e moves down by one.
C10_InsertAddsOneLine ==
    (call.op = "appendAnnotations" /\ ~HadAnnotationLine)
    => LET e == call.line
       IN  /\ lineCount(doc) = lineCount(docBefore) + 1
           /\ getLine(doc, e + 1) = formatAnnotations(call.items)
           /\ \A j \in 0..e : getLine(doc, j) = getLine(docBefore, j)
           /\ \A j \in (e + 1)..(lineCount(docBefore) - 1) :
                  getLine(doc, j + 1) = getLine(docBefore, j)

\* C11: calling appendAnnotations a second time with the same paragraph end
\* line and the same non-empty trimmed items leaves the document as the
\* first call left it.
C11_SecondAppendAddsNothing ==
    [][ ( /\ call.op = "appendAnnotations"
          /\ call' = call
          /\ \A i \in 1..Len(call.items) : IsTrimmedNonEmpty(call.items[i]) )
        => doc' = doc ]_vars

-----------------------------------------------------------------------------
(* Mutator specification: the three operations that write to the document, *)
(* and two that only read it, called on small documents                     *)

MutatorLines ==
    { <<"a">>,
      <<" ">>,
      <<"%", "%", "a", "%", "%">> }

MutatorDocs == UNION {[1..k -> MutatorLines] : k \in 1..MaxDocLines}

\* Texts written in place of a paragraph: one line, two lines.
NewTexts ==
    { <<"b">>,
      <<"-", " ", "b", "\n", "c">> }

\* Bullet lines as formatInspireResponse returns them.
BulletLists ==
    { <<>>,
      << <<"-", " ", "b">> >>,
      << <<" ", " ", "-", " ", "b">>, <<" ", " ", "-", " ", "c">> >> }

InitMutator ==
    /\ doc \in MutatorDocs
    /\ docBefore = doc
    /\ call = NoCall
    /\ result = NULL
    /\ replaceRangeCalls = <<>>
    /\ flow = Idle

\* The document is small enough for one more call.
WithinBounds ==
    /\ lineCount(doc) <= MaxDocLines
    /\ \A i \in 1..Len(doc) : Len(doc[i]) <= MaxLineLen

ReplaceParagraphAndRemoveAnnotations ==
    /\ WithinBounds
    /\ \E startLine \in 0..(lineCount(doc) - 1) :
       \E endLine \in startLine..(lineCount(doc) - 1) :
       \E annotationLine \in
              {NULL} \cup {[line |-> n] : n \in startLine..(lineCount(doc) - 1)},
          newText \in NewTexts :
        /\ call' = [op |-> "replaceParagraphAndRemoveAnnotations",
                    startLine |-> startLine, endLine |-> endLine,
                    annotationLine |-> annotationLine, text |-> newText]
        /\ docBefore' = doc
        /\ replaceRangeCalls' =
               replaceParagraphAndRemoveAnnotationsCalls(
                   doc, startLine, endLine, annotationLine, newText)
        /\ doc' = applyCalls(doc, replaceRangeCalls')
        /\ result' = NULL
        /\ UNCHANGED flow

ReplaceParagraphWithInspiration ==
    /\ WithinBounds
    /\ \E startLine \in 0..(lineCount(doc) - 1) :
       \E endLine \in startLine..(lineCount(doc) - 1) :
       \E newParagraphText \in NewTexts, bulletLines \in BulletLists :
        /\ call' = [op |-> "replaceParagraphWithInspiration",
                    startLine |-> startLine, endLine |-> endLine,
                    text |-> newParagraphText, items |-> bulletLines]
        /\ docBefore' = doc
        /\ replaceRangeCalls' =
               replaceParagraphWithInspirationCalls(
                   doc, startLine, endLine, newParagraphText, bulletLines)
        /\ doc' = applyCalls(doc, replaceRangeCalls')
        /\ result' = NULL
        /\ UNCHANGED flow

GetParagraphText ==
    \E startLine \in 0..(lineCount(doc) - 1) :
    \E endLine \in startLine..(lineCount(doc) - 1) :
        /\ call' = [op |-> "getParagraphText",
                    startLine |-> startLine, endLine |-> endLine]
        /\ result' = getParagraphText(doc, startLine, endLine)
        /\ docBefore' = doc
        /\ replaceRangeCalls' = <<>>
        /\ UNCHANGED <<doc, flow>>

\* Each behaviour is one call on one of the initial documents.
NoCallYet == call.op = "none"

NextMutator ==
    \/ NoCallYet /\ AppendAnnotations
    \/ NoCallYet /\ ReplaceParagraphAndRemoveAnnotations
    \/ NoCallYet /\ ReplaceParagraphWithInspiration
    \/ NoCallYet /\ FindParagraphBoundsNear
    \/ NoCallYet /\ FindAnnotationLine
    \/ NoCallYet /\ GetParagraphText

SpecMutator == InitMutator /\ [][NextMutator]_vars

-----------------------------------------------------------------------------
(* Mutator properties *)

MutatorOps ==
    { "appendAnnotations",
      "replaceParagraphAndRemoveAnnotations",
      "replaceParagraphWithInspiration" }

\* C12: a call of appendAnnotations, replaceParagraphAndRemoveAnnotations or
\* replaceParagraphWithInspiration issues exactly one replaceRange, with or
\* without an annotation line; a call of any other operation issues none.
C12_ExactlyOneReplaceRange ==
    /\ call.op \in MutatorOps => Len(replaceRangeCalls) = 1
    /\ call.op \notin MutatorOps => replaceRangeCalls = <<>>

\* appendAnnotations has inserted a new annotation line with its one call.
C12_Witness ==
    /\ call.op = "appendAnnotations"
    /\ ~HadAnnotationLine
    /\ Len(replaceRangeCalls) = 1
    /\ lineCount(doc) = lineCount(docBefore) + 1

Max(a, b) == IF a >= b THEN a ELSE b

\* The last line of the range replaceParagraphAndRemoveAnnotations replaces
\* is line lastLine of the document before the call, taken to its end.
ReplacesThrough(lastLine) ==
    /\ Len(replaceRangeCalls) = 1
    /\ replaceRangeCalls[1].fromLine = call.startLine
    /\ replaceRangeCalls[1].fromCh = 0
    /\ replaceRangeCalls[1].toLine = lastLine
    /\ replaceRangeCalls[1].toCh = Len(getLine(docBefore, lastLine))
    /\ replaceRangeCalls[1].text = call.text
    /\ doc = replaceRange(docBefore, call.text, call.startLine, 0,
                          lastLine, Len(getLine(docBefore, lastLine)))

C15_InspirationFrame ==
    call.op = "replaceParagraphWithInspiration"
        => LET replacement == call.text \o <<"\n">>
                                  \o join(call.items, <<"\n">>)
               written     == split(replacement, "\n")
           IN  /\ Len(replaceRangeCalls) = 1
               /\ replaceRangeCalls[1] =
                      RangeCall(replacement, call.startLine, 0, call.endLine,
                                Len(getLine(docBefore, call.endLine)))
               /\ doc = SubSeq(docBefore, 1, call.startLine)
                            \o written
                            \o SubSeq(docBefore, call.endLine + 2,
                                      Len(docBefore))

\* Two bullets were inserted above an annotation line at e+1, below a line
\* that precedes the paragraph.
C15_Witness ==
    /\ call.op = "replaceParagraphWithInspiration"
    /\ call.startLine > 0
    /\ Len(call.items) = 2
    /\ call.endLine + 1 < lineCount(docBefore)
    /\ isAnnotationLine(getLine(docBefore, call.endLine + 1))
    /\ doc[Len(doc)] = getLine(docBefore, call.endLine + 1)
    /\ doc[Len(doc) - 1] = call.items[2]

-----------------------------------------------------------------------------
(* Text specification: extractInstruction and extractMarkdownPrefix applied *)
(* to short texts                                                            *)

MaxTextLen == 5
MaxPrefixLineLen == 4

InstructionAlphabet == {"{", "}", "a", " ", "-"}

PrefixAlphabet == {"#", "-", "1", ".", " ", ">", "a"}

\* Headings of six and of seven #, an indented ordered item, a quote with
\* an instruction, an instruction in front of a list marker.
LongTexts ==
    { <<"#", "#", "#", "#", "#", "#", " ", "a">>,
      <<"#", "#", "#", "#", "#", "#", "#", " ", "a">>,
      <<" ", "1", "1", ".", " ", " ", "a">>,
      <<">", " ", "a", " ", "{", "a", "}">>,
      <<"{", "a", "}", "-", " ", "a">> }

Texts ==
    Strings(InstructionAlphabet, MaxTextLen)
        \cup Strings(PrefixAlphabet, MaxPrefixLineLen)
        \cup LongTexts

InitText ==
    /\ doc = << <<>> >>
    /\ docBefore = doc
    /\ call \in {Call("none", 0, <<>>, text) : text \in Texts}
    /\ result = NULL
    /\ replaceRangeCalls = <<>>
    /\ flow = Idle

ExtractInstruction ==
    /\ call.op = "none"
    /\ call' = [call EXCEPT !.op = "extractInstruction"]
    /\ result' = extractInstruction(call.text)
    /\ replaceRangeCalls' = <<>>
    /\ UNCHANGED <<doc, docBefore, flow>>

ExtractMarkdownPrefix ==
    /\ call.op = "none"
    /\ call' = [call EXCEPT !.op = "extractMarkdownPrefix"]
    /\ result' = extractMarkdownPrefix(call.text)
    /\ replaceRangeCalls' = <<>>
    /\ UNCHANGED <<doc, docBefore, flow>>

NextText ==
    \/ ExtractInstruction
    \/ ExtractMarkdownPrefix

SpecText == InitText /\ [][NextText]_vars

-----------------------------------------------------------------------------
(* Properties of the instruction extractor and the markdown prefix *)

\* The {...} spans of text from position from on, left to right, as
\* [start, end]: a span runs from a { to the first } after it; its payload,
\* the characters in between, may be empty.
RECURSIVE SpansFrom(_, _)
SpansFrom(text, from) ==
    IF \E i \in from..Len(text) :
           text[i] = "{" /\ \E j \in (i + 1)..Len(text) : text[j] = "}"
    THEN LET i == CHOOSE k \in from..Len(text) :
                      /\ text[k] = "{"
                      /\ \E j \in (k + 1)..Len(text) : text[j] = "}"
                      /\ \A m \in from..(k - 1) : text[m] # "{"
             j == CHOOSE k \in (i + 1)..Len(text) :
                      /\ text[k] = "}"
                      /\ \A m \in (i + 1)..(k - 1) : text[m] # "}"
         IN  << [start |-> i, end |-> j] >> \o SpansFrom(text, j + 1)
    ELSE <<>>

Spans(text) == SpansFrom(text, 1)

SpanPayload(text, span) == SubSeq(text, span.start + 1, span.end - 1)

SpanText(text, span) == SubSeq(text, span.start, span.end)

SpanTexts(text) ==
    [i \in 1..Len(Spans(text)) |-> SpanText(text, Spans(text)[i])]

LastSpan(text) == Spans(text)[Len(Spans(text))]

C17_LastSpanRemoved ==
    (call.op = "extractInstruction" /\ result # NULL)
        => LET last == LastSpan(call.text)
           IN  /\ result.instruction = trim(SpanPayload(call.text, last))
               /\ result.cleanedText =
                      trimEnd(trimEnd(SubSeq(call.text, 1, last.start - 1))
                                  \o SliceFrom(call.text, last.end))
               /\ SpanTexts(result.cleanedText)
                      = SubSeq(SpanTexts(call.text), 1,
                               Len(Spans(call.text)) - 1)

\* C18: when extractInstruction returns a result, cleanedText has the
\* markdown prefix of the text.
C18_PrefixPreserved ==
    (call.op = "extractInstruction" /\ result # NULL)
        => extractMarkdownPrefix(result.cleanedText).prefix
               = extractMarkdownPrefix(call.text).prefix

\* Optional indentation, then -, * or +, or digits and a dot, then
\* whitespace.
ListShape(line) ==
    \E w \in 0..Len(line), m \in 1..Len(line) :
        /\ w + m < Len(line)
        /\ \A i \in 1..w : IsWhitespace(line[i])
        /\ \/ m = 1 /\ line[w + 1] \in {"-", "*", "+"}
           \/ /\ m > 1
              /\ \A i \in (w + 1)..(w + m - 1) : IsDigit(line[i])
              /\ line[w + m] = "."
        /\ IsWhitespace(line[w + m + 1])

\* One to six #, then whitespace.
HeadingShape(line) ==
    \E h \in 1..6 :
        /\ h < Len(line)
        /\ \A i \in 1..h : line[i] = "#"
        /\ IsWhitespace(line[h + 1])

\* >, then whitespace.
QuoteShape(line) ==
    /\ Len(line) >= 2
    /\ line[1] = ">"
    /\ IsWhitespace(line[2])

\* C20: extractMarkdownPrefix splits the line into prefix and content with
\* prefix + content = line; the prefix is non-empty exactly when the line
\* starts with a list marker, with one to six # and whitespace, or with >
\* and whitespace.
C20_PrefixSplitsLine ==
    call.op = "extractMarkdownPrefix"
        => /\ result.prefix \o result.content = call.text
           /\ result.prefix # <<>>
                  <=> \/ ListShape(call.text)
                      \/ HeadingShape(call.text)
                      \/ QuoteShape(call.text)

\* An indented ordered item with two spaces after the dot was split.
C20_Witness ==
    /\ call.op = "extractMarkdownPrefix"
    /\ result.prefix = <<" ", "1", "1", ".", " ", " ">>
    /\ result.content = <<"a">>

-----------------------------------------------------------------------------
(* Context gatherer *)

BeforeWindow == 10
AfterWindow == 5

Min(a, b) == IF a <= b THEN a ELSE b

\* /^#{1,6}\s/.test(line)
isHeadingLine(line) ==
    LET hashes == HashRun(line)
    IN  /\ hashes >= 1
        /\ hashes <= 6
        /\ Len(line) > hashes
        /\ IsWhitespace(line[hashes + 1])

\* The upward loop of gatherSurroundingContext from line i: the first
\* heading line found, -1 if there is none.
RECURSIVE headingLineFrom(_, _)
headingLineFrom(d, i) ==
    IF i < 0 THEN -1
    ELSE IF isHeadingLine(getLine(d, i)) THEN i
    ELSE headingLineFrom(d, i - 1)

\* Mutant: the nearest heading is pushed whenever there is one.
contextParts_headingAlways(d, startLine, endLine) ==
    LET totalLines  == lineCount(d)
        headingLine == headingLineFrom(d, startLine - 1)
        beforeStart == Max(0, startLine - BeforeWindow)
        heading     == IF headingLine >= 0
                       THEN << getLine(d, headingLine) >>
                       ELSE <<>>
        beforeLines == SubSeq(d, beforeStart + 1, startLine)
        afterEnd    == Min(totalLines - 1, endLine + AfterWindow)
        afterLines  == SubSeq(d, endLine + 2, afterEnd + 1)
    IN  heading
            \o (IF Len(beforeLines) > 0
                THEN << join(beforeLines, <<"\n">>) >> ELSE <<>>)
            \o (IF Len(afterLines) > 0
                THEN << join(afterLines, <<"\n">>) >> ELSE <<>>)

\* Mutant: the lines after the paragraph start at its last line.
contextParts_afterFromEndLine(d, startLine, endLine) ==
    LET totalLines  == lineCount(d)
        headingLine == headingLineFrom(d, startLine - 1)
        beforeStart == Max(0, startLine - BeforeWindow)
        heading     == IF headingLine >= 0 /\ headingLine < beforeStart
                       THEN << getLine(d, headingLine) >>
                       ELSE <<>>
        beforeLines == SubSeq(d, beforeStart + 1, startLine)
        afterEnd    == Min(totalLines - 1, endLine + AfterWindow)
        afterLines  == SubSeq(d, endLine + 1, afterEnd + 1)
    IN  heading
            \o (IF Len(beforeLines) > 0
                THEN << join(beforeLines, <<"\n">>) >> ELSE <<>>)
            \o (IF Len(afterLines) > 0
                THEN << join(afterLines, <<"\n">>) >> ELSE <<>>)

\* The array parts of gatherSurroundingContext before it is joined.
contextParts(d, startLine, endLine) ==
    LET totalLines  == lineCount(d)
        headingLine == headingLineFrom(d, startLine - 1)
        beforeStart == Max(0, startLine - BeforeWindow)
        heading     == IF headingLine >= 0 /\ headingLine < beforeStart
                       THEN << getLine(d, headingLine) >>
                       ELSE <<>>
        beforeLines == SubSeq(d, beforeStart + 1, startLine)
        afterEnd    == Min(totalLines - 1, endLine + AfterWindow)
        afterLines  == SubSeq(d, endLine + 2, afterEnd + 1)
    IN  heading
            \o (IF Len(beforeLines) > 0
                THEN << join(beforeLines, <<"\n">>) >> ELSE <<>>)
            \o (IF Len(afterLines) > 0
                THEN << join(afterLines, <<"\n">>) >> ELSE <<>>)

gatherSurroundingContext(d, startLine, endLine) ==
    trim(join(contextParts(d, startLine, endLine), <<"\n", "\n">>))

-----------------------------------------------------------------------------
(* The completion client (ai-client.ts) *)

\* An optional JSON member that is present.
Some(value) == [value |-> value]

Throws(message) == [throws |-> message]

Threw(outcome) == "throws" \in DOMAIN outcome

\* The inner loop of extractResponseText: the trimmed text of the first block
\* of type output_text with a non-empty text, text itself if there is none.
RECURSIVE blockText(_, _)
blockText(blocks, text) ==
    IF blocks = <<>> THEN text
    ELSE LET block == Head(blocks)
         IN  IF /\ block.type = "output_text"
                /\ block.text # NULL
                /\ block.text.value # <<>>
             THEN trim(block.text.value)
             ELSE blockText(Tail(blocks), text)

\* The outer loop of extractResponseText over data.output.
RECURSIVE outputText(_, _)
outputText(items, text) ==
    IF items = <<>> THEN text
    ELSE LET item == Head(items)
             found == IF item.type = "message" /\ item.content # NULL
                      THEN blockText(item.content.value, text)
                      ELSE text
         IN  IF found # <<>> THEN found
             ELSE outputText(Tail(items), found)

\* Mutant: whatever text was found is returned, also when it is empty.
extractResponseText_noThrow(data) ==
    LET top  == IF data.output_text # NULL
                THEN trim(data.output_text.value)
                ELSE <<>>
        text == IF top = <<>> /\ data.output # NULL
                THEN outputText(data.output.value, top)
                ELSE top
    IN  [text |-> text]

\* extractResponseText on the parsed body: [text] or Throws; an undefined
\* text and an empty one are both the empty string here.
extractResponseText(data) ==
    LET top  == IF data.output_text # NULL
                THEN trim(data.output_text.value)
                ELSE <<>>
        text == IF top = <<>> /\ data.output # NULL
                THEN outputText(data.output.value, top)
                ELSE top
    IN  IF text = <<>>
        THEN Throws("The assistant didn't return any text.")
        ELSE [text |-> text]

\* chatCompletion with what the request comes back with: fetch rejects, an
\* HTTP error status, a body that is not JSON, or a parsed body.
chatCompletion(apiKey, response) ==
    IF ~apiKey THEN Throws("API key not configured. Please set it in Coo settings.")
    ELSE IF response.kind = "networkError" THEN Throws("Failed to fetch")
    ELSE IF ~response.ok THEN Throws("OpenAI service error. Please try again later.")
    ELSE IF response.data = NULL THEN Throws("SyntaxError")
    ELSE extractResponseText(response.data)

-----------------------------------------------------------------------------
(* Flow specification: one discuss, rewrite or inspire command on a small  *)
(* document, from the command to the end of performRewrite / performInspire *)

FlowLines ==
    { <<"a">>,
      <<" ">>,
      <<"%", "%", "a", "%", "%">>,
      <<"%", "%", " ", "%", "%">>,
      <<"-", " ", "{", "a", "}">>,
      <<"-", " ", "a", " ", "{", "a", "}">>,
      <<"a", " ", "{", "a", "}">>,
      <<"{", "a", "}", "-", " ", "a">> }

FlowDocs == UNION {[1..k -> FlowLines] : k \in 1..MaxDocLines}

Block(type, text) == [type |-> type, text |-> text]

Message(blocks) == [type |-> "message", content |-> Some(blocks)]

Body(output_text, output) ==
    [kind |-> "http", ok |-> TRUE,
     data |-> [output_text |-> output_text, output |-> output]]

\* What a request comes back with: no response, an error status, a body
\* that does not parse, bodies with a top-level output_text (trimmed or
\* not, of one or several lines), and bodies with nested blocks only.
ApiResponses ==
    { [kind |-> "networkError"],
      [kind |-> "http", ok |-> FALSE, data |-> NULL],
      [kind |-> "http", ok |-> TRUE, data |-> NULL],
      Body(Some(<<"b">>), NULL),
      Body(Some(<<"-", " ", "b">>), NULL),
      Body(Some(<<" ", "b", "\n", "c", "\n">>), NULL),
      Body(Some(<<"b", "\n", "\n", " ", "-", " ", "c">>), Some(<<>>)),
      Body(NULL, NULL),
      Body(Some(<<" ">>), Some(<<>>)),
      Body(NULL, Some(<< Message(<< Block("output_text", Some(<<" ">>)) >>) >>)),
      Body(NULL, Some(<< Message(<< Block("output_text", Some(<<" ">>)) >>),
                         Message(<< Block("refusal", Some(<<"a">>)),
                                    Block("output_text", Some(<<" ", "b">>)) >>) >>)),
      Body(Some(<<>>), Some(<< Message(<< Block("output_text", Some(<<" ">>)),
                                          Block("output_text", Some(<<"b">>)) >>) >>)),
      Body(NULL, Some(<< [type |-> "reasoning",
                          content |-> Some(<< Block("output_text", Some(<<"b">>)) >>)],
                         [type |-> "message", content |-> NULL],
                         Message(<< Block("output_text", NULL) >>) >>)) }

\* editor.getSelection() at the time of the discuss command.
Selections == { <<>>, <<" ">>, <<"a">>, <<" ", "a", ",", "b">> }

Notice(message) == [notice |-> message]

InitFlow ==
    /\ doc \in FlowDocs
    /\ docBefore = doc
    /\ call = NoCall
    /\ result = NULL
    /\ replaceRangeCalls = <<>>
    /\ flow \in {[pc |-> "idle", apiKey |-> apiKey, requests |-> 0] :
                     apiKey \in BOOLEAN}

\* requireApiKey()
requireApiKey == flow.apiKey

\* The flow after a command or a flow has ended.
Ended == [pc |-> "idle", apiKey |-> flow.apiKey, requests |-> flow.requests]

\* openDiscuss: the composer opens on a non-empty selection; it sends no
\* request by itself.
DiscussCommand ==
    /\ flow.pc = "idle"
    /\ NoCallYet
    /\ \E selection \in Selections, fromLine \in 0..(lineCount(doc) - 1) :
        LET selectedText == trim(selection)
            bounds       == findParagraphBounds(doc, fromLine)
        IN  /\ call' = [op |-> "coo-discuss", line |-> fromLine,
                        selection |-> selection]
            /\ docBefore' = doc
            /\ replaceRangeCalls' = <<>>
            /\ UNCHANGED doc
            /\ IF ~requireApiKey
               THEN /\ result' = Notice("Please set your OpenAI API key in coo settings.")
                    /\ UNCHANGED flow
               ELSE IF selectedText = <<>>
               THEN /\ result' = Notice("Select some text first.")
                    /\ UNCHANGED flow
               ELSE /\ result' = NULL
                    /\ flow' = [pc |-> "composer",
                                apiKey |-> flow.apiKey,
                                requests |-> flow.requests,
                                selectedText |-> selectedText,
                                picks |-> 0,
                                paragraphEndLine |->
                                    IF bounds # NULL THEN bounds.endLine
                                    ELSE fromLine]

\* Mutant: an annotation line that decodes to the empty list is rewritten
\* with.
RewriteCommand_noEmptyCheck ==
    /\ flow.pc = "idle"
    /\ NoCallYet
    /\ \E cursorLine \in 0..(lineCount(doc) - 1) :
        LET bounds            == findParagraphBoundsNear(doc, cursorLine)
            annotationLineNum == findAnnotationLine(doc, bounds.endLine)
            annotations       ==
                parseAnnotations(getLine(doc, annotationLineNum.line))
            paragraphText     ==
                getParagraphText(doc, bounds.startLine, bounds.endLine)
            extracted         == extractMarkdownPrefix(paragraphText)
        IN  /\ call' = [op |-> "coo-rewrite", line |-> cursorLine]
            /\ docBefore' = doc
            /\ replaceRangeCalls' = <<>>
            /\ UNCHANGED doc
            /\ IF ~requireApiKey
               THEN /\ result' = Notice("Please set your OpenAI API key in coo settings.")
                    /\ UNCHANGED flow
               ELSE IF bounds = NULL
               THEN /\ result' = Notice("Place your cursor in a paragraph.")
                    /\ UNCHANGED flow
               ELSE IF annotationLineNum = NULL
               THEN /\ result' = Notice("No annotations found. Use coo discuss to add annotations first.")
                    /\ UNCHANGED flow
               ELSE /\ result' = Notice("Rewriting...")
                    /\ flow' = [pc |-> "performRewrite",
                                apiKey |-> flow.apiKey,
                                requests |-> flow.requests + 1,
                                cursorLine |-> cursorLine,
                                bounds |-> bounds,
                                annotationLineNum |-> annotationLineNum,
                                annotations |-> annotations,
                                prefix |-> extracted.prefix,
                                content |-> extracted.content]

\* The editorCallback of coo-rewrite up to the await inside performRewrite,
\* where the request has been sent.
RewriteCommand ==
    /\ flow.pc = "idle"
    /\ NoCallYet
    /\ \E cursorLine \in 0..(lineCount(doc) - 1) :
        LET bounds            == findParagraphBoundsNear(doc, cursorLine)
            annotationLineNum == findAnnotationLine(doc, bounds.endLine)
            annotations       ==
                parseAnnotations(getLine(doc, annotationLineNum.line))
            paragraphText     ==
                getParagraphText(doc, bounds.startLine, bounds.endLine)
            extracted         == extractMarkdownPrefix(paragraphText)
        IN  /\ call' = [op |-> "coo-rewrite", line |-> cursorLine]
            /\ docBefore' = doc
            /\ replaceRangeCalls' = <<>>
            /\ UNCHANGED doc
            /\ IF ~requireApiKey
               THEN /\ result' = Notice("Please set your OpenAI API key in coo settings.")
                    /\ UNCHANGED flow
               ELSE IF bounds = NULL
               THEN /\ result' = Notice("Place your cursor in a paragraph.")
                    /\ UNCHANGED flow
               ELSE IF annotationLineNum = NULL
               THEN /\ result' = Notice("No annotations found. Use coo discuss to add annotations first.")
                    /\ UNCHANGED flow
               ELSE IF annotations = <<>>
               THEN /\ result' = Notice("Annotation line is empty.")
                    /\ UNCHANGED flow
               ELSE /\ result' = Notice("Rewriting...")
                    /\ flow' = [pc |-> "performRewrite",
                                apiKey |-> flow.apiKey,
                                requests |-> flow.requests + 1,
                                cursorLine |-> cursorLine,
                                bounds |-> bounds,
                                annotationLineNum |-> annotationLineNum,
                                annotations |-> annotations,
                                prefix |-> extracted.prefix,
                                content |-> extracted.content]

\* The line whose current text the pending flow reads when it resumes: the
\* annotation line of a rewrite, the last paragraph line of an inspire.
lastTargetLine(pending) ==
    IF pending.pc = "performRewrite"
    THEN pending.annotationLineNum.line
    ELSE pending.bounds.endLine

\* Mutant: the rewritten text is written without the markdown prefix.
RewriteResolves_withoutPrefix ==
    /\ flow.pc = "performRewrite"
    /\ \E response \in ApiResponses :
        LET completion == chatCompletion(flow.apiKey, response)
        IN  /\ ~Threw(completion)
            /\ lastTargetLine(flow) < lineCount(doc)
            /\ call' = [op |-> "performRewrite",
                        line |-> flow.cursorLine,
                        current |-> doc,
                        startLine |-> flow.bounds.startLine,
                        endLine |-> flow.bounds.endLine,
                        annotationLine |-> flow.annotationLineNum,
                        prefix |-> flow.prefix,
                        response |-> response,
                        completion |-> completion,
                        text |-> completion.text]
            /\ replaceRangeCalls' =
                   replaceParagraphAndRemoveAnnotationsCalls(
                       doc, flow.bounds.startLine, flow.bounds.endLine,
                       flow.annotationLineNum, completion.text)
            /\ doc' = applyCalls(doc, replaceRangeCalls')
            /\ result' = Notice("Rewritten.")
            /\ flow' = Ended
            /\ UNCHANGED docBefore

\* Mutant: the paragraph and its annotation line are located again when the
\* completion resolves.
RewriteResolves_relocated ==
    /\ flow.pc = "performRewrite"
    /\ \E response \in ApiResponses, cursorLine \in 0..(lineCount(doc) - 1) :
        LET completion == chatCompletion(flow.apiKey, response)
            bounds     == findParagraphBoundsNear(doc, cursorLine)
            annotation == findAnnotationLine(doc, bounds.endLine)
        IN  /\ ~Threw(completion)
            /\ bounds # NULL
            /\ annotation # NULL
            /\ call' = [op |-> "performRewrite",
                        line |-> flow.cursorLine,
                        current |-> doc,
                        startLine |-> bounds.startLine,
                        endLine |-> bounds.endLine,
                        annotationLine |-> annotation,
                        prefix |-> flow.prefix,
                        response |-> response,
                        completion |-> completion,
                        text |-> completion.text]
            /\ replaceRangeCalls' =
                   replaceParagraphAndRemoveAnnotationsCalls(
                       doc, bounds.startLine, bounds.endLine,
                       annotation, flow.prefix \o completion.text)
            /\ doc' = applyCalls(doc, replaceRangeCalls')
            /\ result' = Notice("Rewritten.")
            /\ flow' = Ended
            /\ UNCHANGED docBefore

\* chatCompletion resolves in performRewrite.
RewriteResolves ==
    /\ flow.pc = "performRewrite"
    /\ \E response \in ApiResponses :
        LET completion == chatCompletion(flow.apiKey, response)
        IN  /\ ~Threw(completion)
            /\ lastTargetLine(flow) < lineCount(doc)
            /\ call' = [op |-> "performRewrite",
                        line |-> flow.cursorLine,
                        current |-> doc,
                        startLine |-> flow.bounds.startLine,
                        endLine |-> flow.bounds.endLine,
                        annotationLine |-> flow.annotationLineNum,
                        prefix |-> flow.prefix,
                        response |-> response,
                        completion |-> completion,
                        text |-> completion.text]
            /\ replaceRangeCalls' =
                   replaceParagraphAndRemoveAnnotationsCalls(
                       doc, flow.bounds.startLine, flow.bounds.endLine,
                       flow.annotationLineNum, flow.prefix \o completion.text)
            /\ doc' = applyCalls(doc, replaceRangeCalls')
            /\ result' = Notice("Rewritten.")
            /\ flow' = Ended
            /\ UNCHANGED docBefore

\* Mutant: a failed completion is requested again.
RewriteFails_retry ==
    /\ flow.pc = "performRewrite"
    /\ flow.requests < 3
    /\ \E response \in ApiResponses :
        LET completion == chatCompletion(flow.apiKey, response)
        IN  /\ Threw(completion)
            /\ call' = [op |-> "performRewrite",
                        line |-> flow.cursorLine,
                        current |-> doc,
                        startLine |-> flow.bounds.startLine,
                        endLine |-> flow.bounds.endLine,
                        annotationLine |-> flow.annotationLineNum,
                        prefix |-> flow.prefix,
                        response |-> response,
                        completion |-> completion,
                        text |-> <<>>]
            /\ replaceRangeCalls' = <<>>
            /\ result' = Notice(completion.throws)
            /\ flow' = [flow EXCEPT !.requests = @ + 1]
            /\ UNCHANGED <<doc, docBefore>>

\* chatCompletion throws in performRewrite.
RewriteFails ==
    /\ flow.pc = "performRewrite"
    /\ \E response \in ApiResponses :
        LET completion == chatCompletion(flow.apiKey, response)
        IN  /\ Threw(completion)
            /\ call' = [op |-> "performRewrite",
                        line |-> flow.cursorLine,
                        current |-> doc,
                        startLine |-> flow.bounds.startLine,
                        endLine |-> flow.bounds.endLine,
                        annotationLine |-> flow.annotationLineNum,
                        prefix |-> flow.prefix,
                        response |-> response,
                        completion |-> completion,
                        text |-> <<>>]
            /\ replaceRangeCalls' = <<>>
            /\ result' = Notice(completion.throws)
            /\ flow' = Ended
            /\ UNCHANGED <<doc, docBefore>>

\* The editorCallback of coo-inspire up to the await inside performInspire,
\* where the request has been sent.
InspireCommand ==
    /\ flow.pc = "idle"
    /\ NoCallYet
    /\ \E cursorLine \in 0..(lineCount(doc) - 1) :
        LET bounds        == findParagraphBoundsNear(doc, cursorLine)
            paragraphText ==
                getParagraphText(doc, bounds.startLine, bounds.endLine)
            extracted     == extractInstruction(paragraphText)
            prefix        == extractMarkdownPrefix(extracted.cleanedText).prefix
            indentSize    == IF isListItem(extracted.cleanedText)
                             THEN Len(prefix)
                             ELSE 0
        IN  /\ call' = [op |-> "coo-inspire", line |-> cursorLine]
            /\ docBefore' = doc
            /\ replaceRangeCalls' = <<>>
            /\ UNCHANGED doc
            /\ IF ~requireApiKey
               THEN /\ result' = Notice("Please set your OpenAI API key in coo settings.")
                    /\ UNCHANGED flow
               ELSE IF bounds = NULL
               THEN /\ result' = Notice("Place your cursor in a paragraph.")
                    /\ UNCHANGED flow
               ELSE IF extracted = NULL
               THEN /\ result' = Notice("No {instruction} found in this paragraph.")
                    /\ UNCHANGED flow
               ELSE /\ result' = Notice("Inspiring...")
                    /\ flow' = [pc |-> "performInspire",
                                apiKey |-> flow.apiKey,
                                requests |-> flow.requests + 1,
                                cursorLine |-> cursorLine,
                                bounds |-> bounds,
                                extracted |-> extracted,
                                context |->
                                    gatherSurroundingContext(
                                        doc, bounds.startLine, bounds.endLine),
                                indentSize |-> indentSize]

\* chatCompletion resolves in performInspire.
InspireResolves ==
    /\ flow.pc = "performInspire"
    /\ \E response \in ApiResponses :
        LET completion  == chatCompletion(flow.apiKey, response)
            bulletLines ==
                formatInspireResponse(completion.text, flow.indentSize)
        IN  /\ ~Threw(completion)
            /\ lastTargetLine(flow) < lineCount(doc)
            /\ call' = [op |-> "performInspire",
                        line |-> flow.cursorLine,
                        current |-> doc,
                        startLine |-> flow.bounds.startLine,
                        endLine |-> flow.bounds.endLine,
                        text |-> flow.extracted.cleanedText,
                        indentSize |-> flow.indentSize,
                        response |-> response,
                        completion |-> completion,
                        items |-> bulletLines]
            /\ IF bulletLines = <<>>
               THEN /\ result' = Notice("No response generated.")
                    /\ replaceRangeCalls' = <<>>
                    /\ UNCHANGED doc
               ELSE /\ result' = Notice("Inspired.")
                    /\ replaceRangeCalls' =
                           replaceParagraphWithInspirationCalls(
                               doc, flow.bounds.startLine,
                               flow.bounds.endLine,
                               flow.extracted.cleanedText, bulletLines)
                    /\ doc' = applyCalls(doc, replaceRangeCalls')
            /\ flow' = Ended
            /\ UNCHANGED docBefore

\* chatCompletion throws in performInspire.
InspireFails ==
    /\ flow.pc = "performInspire"
    /\ \E response \in ApiResponses :
        LET completion == chatCompletion(flow.apiKey, response)
        IN  /\ Threw(completion)
            /\ call' = [op |-> "performInspire",
                        line |-> flow.cursorLine,
                        current |-> doc,
                        startLine |-> flow.bounds.startLine,
                        endLine |-> flow.bounds.endLine,
                        text |-> flow.extracted.cleanedText,
                        indentSize |-> flow.indentSize,
                        response |-> response,
                        completion |-> completion,
                        items |-> <<>>]
            /\ replaceRangeCalls' = <<>>
            /\ result' = Notice(completion.throws)
            /\ flow' = Ended
            /\ UNCHANGED <<doc, docBefore>>

NextFlow ==
    \/ DiscussCommand
    \/ RewriteCommand
    \/ RewriteResolves
    \/ RewriteFails
    \/ InspireCommand
    \/ InspireResolves
    \/ InspireFails

SpecFlow == InitFlow /\ [][NextFlow]_vars

-----------------------------------------------------------------------------
(* Properties of the flows *)

\* C14: after a rewrite that succeeds on the paragraph [s, e] with its
\* annotation line at e+1, the document is the lines before s, then the lines
\* of the paragraph's markdown prefix followed by the rewritten text, then
\* the lines from e+2 on; the paragraph and its annotation line are replaced.
C14_RewriteFrame ==
    (call.op = "performRewrite" /\ result = Notice("Rewritten."))
        => LET s         == call.startLine
               e         == call.endLine
               paragraph == getParagraphText(docBefore, s, e)
               written   == split(extractMarkdownPrefix(paragraph).prefix
                                      \o call.text, "\n")
           IN  /\ isAnnotationLine(getLine(docBefore, e + 1))
               /\ doc = SubSeq(docBefore, 1, s)
                            \o written
                            \o SubSeq(docBefore, e + 3, Len(docBefore))
               /\ lineCount(doc) =
                      lineCount(docBefore) - (e - s + 2) + Len(written)

\* A list item with its annotation line, above a third line, was rewritten
\* into two lines; its marker is kept and the third line is untouched.
C14_Witness ==
    /\ call.op = "performRewrite"
    /\ result = Notice("Rewritten.")
    /\ call.startLine = 0
    /\ call.endLine = 0
    /\ call.prefix = <<"-", " ">>
    /\ call.text = <<"b", "\n", "c">>
    /\ lineCount(docBefore) = 3
    /\ doc = << <<"-", " ", "b">>, <<"c">>, docBefore[3] >>

\* C19: the bullets inspire inserts are indented by the length of the
\* list-marker prefix of the paragraph's line (at least 2) when the paragraph
\* is a list item, and by 0 when it is not.
C19_BulletsNestedUnderListItem ==
    (call.op = "performInspire" /\ result = Notice("Inspired."))
        => LET line   == getLine(docBefore, call.startLine)
               indent == IF isListItem(line)
                         THEN Len(extractMarkdownPrefix(line).prefix)
                         ELSE 0
           IN  /\ isListItem(line) => indent >= 2
               /\ \A i \in 1..Len(call.items) :
                      /\ Len(call.items[i]) >= indent + 2
                      /\ SubSeq(call.items[i], 1, indent + 2)
                             = spaces(indent) \o <<"-", " ">>

\* The completion of performRewrite or performInspire has come back.
Completed == "completion" \in DOMAIN call

\* C24: in the rewrite flow and in the inspire flow the completion is
\* requested at most once and replaceRange is called at most once, only
\* after the completion has resolved successfully; when the completion
\* fails the document is what it was before the command, and the flow has
\* ended with the notice of the error.
C24_OneRequestOneMutation ==
    /\ flow.requests <= 1
    /\ Len(replaceRangeCalls) <= 1
    /\ (replaceRangeCalls # <<>> \/ doc # docBefore)
           => /\ Completed
              /\ ~Threw(call.completion)
              /\ flow.requests = 1
    /\ (Completed /\ Threw(call.completion))
           => /\ doc = docBefore
              /\ replaceRangeCalls = <<>>
              /\ result = Notice(call.completion.throws)
              /\ flow.pc = "idle"
              /\ flow.requests = 1

\* An inspire flow whose request got no response has ended.
C24_Witness ==
    /\ call.op = "performInspire"
    /\ call.response.kind = "networkError"
    /\ Threw(call.completion)
    /\ result = Notice("Failed to fetch")
    /\ flow.pc = "idle"

\* The user input the command needs is absent (the five cases of the
\* commands' early returns, read off the document before the command).
UserInputAbsent ==
    \/ /\ call.op = "coo-discuss"
       /\ trim(call.selection) = <<>>
    \/ /\ call.op \in {"coo-rewrite", "coo-inspire"}
       /\ findParagraphBoundsNear(docBefore, call.line) = NULL
    \/ /\ call.op = "coo-rewrite"
       /\ findParagraphBoundsNear(docBefore, call.line) # NULL
       /\ LET e == findParagraphBoundsNear(docBefore, call.line).endLine
          IN  \/ e + 1 >= lineCount(docBefore)
              \/ ~isAnnotationLine(getLine(docBefore, e + 1))
              \/ parseAnnotations(getLine(docBefore, e + 1)) = <<>>
    \/ /\ call.op = "coo-inspire"
       /\ findParagraphBoundsNear(docBefore, call.line) # NULL
       /\ LET bounds == findParagraphBoundsNear(docBefore, call.line)
          IN  extractInstruction(
                  getParagraphText(docBefore, bounds.startLine,
                                   bounds.endLine)) = NULL

\* C25: a discuss command on an empty or all-whitespace selection, a rewrite
\* or inspire command where findParagraphBoundsNear is null, a rewrite with
\* no annotation line directly below the paragraph or with one that decodes
\* to the empty list, and an inspire with no instruction all abort: no
\* request has been sent, the document has not been touched, and the flow
\* is over.
C25_AbortOnAbsentInput ==
    UserInputAbsent
        => /\ flow.pc = "idle"
           /\ flow.requests = 0
           /\ doc = docBefore
           /\ replaceRangeCalls = <<>>
           /\ "notice" \in DOMAIN result

\* A rewrite command on a paragraph whose annotation line has an empty
\* payload has been turned down.
C25_Witness ==
    /\ call.op = "coo-rewrite"
    /\ flow.apiKey
    /\ result = Notice("Annotation line is empty.")
    /\ UserInputAbsent
    /\ flow.requests = 0

\* No output_text block of the content has text other than whitespace.
RECURSIVE noTextIn(_)
noTextIn(blocks) ==
    \/ blocks = <<>>
    \/ /\ \/ Head(blocks).type # "output_text"
          \/ Head(blocks).text = NULL
          \/ trim(Head(blocks).text.value) = <<>>
       /\ noTextIn(Tail(blocks))

RECURSIVE noTextInOutput(_)
noTextInOutput(items) ==
    \/ items = <<>>
    \/ /\ \/ Head(items).content = NULL
          \/ noTextIn(Head(items).content.value)
       /\ noTextInOutput(Tail(items))

NoUsableText(response) ==
    /\ response.kind = "http"
    /\ response.ok
    /\ response.data # NULL
    /\ \/ response.data.output_text = NULL
       \/ trim(response.data.output_text.value) = <<>>
    /\ \/ response.data.output = NULL
       \/ noTextInOutput(response.data.output.value)

\* C26: chatCompletion throws or returns a string that is non-empty and
\* trimmed; a response whose output_text and nested output_text blocks are
\* all missing or all whitespace throws, and the flow then leaves the
\* document alone; the inspire flow never replaces the paragraph with an
\* empty list of bullets.
C26_EmptyCompletionFails ==
    Completed
        => /\ ~Threw(call.completion)
               => /\ call.completion.text # <<>>
                  /\ trim(call.completion.text) = call.completion.text
           /\ NoUsableText(call.response)
               => /\ call.completion =
                         Throws("The assistant didn't return any text.")
                  /\ doc = docBefore
                  /\ replaceRangeCalls = <<>>
           /\ (call.op = "performInspire" /\ replaceRangeCalls # <<>>)
               => call.items # <<>>

\* A rewrite whose response carries only a whitespace block has failed.
C26_Witness ==
    /\ call.op = "performRewrite"
    /\ NoUsableText(call.response)
    /\ call.response.data.output # NULL
    /\ call.response.data.output.value # <<>>
    /\ result = Notice("The assistant didn't return any text.")
    /\ doc = docBefore

-----------------------------------------------------------------------------
(* Race specification: the rewrite and inspire flows with one edit by the   *)
(* user, at or above the paragraph, while the completion is pending         *)

RaceLines ==
    { <<"a">>,
      <<" ">>,
      <<"%", "%", "a", "%", "%">>,
      <<"-", " ", "a", " ", "{", "a", "}">> }

RaceDocs == UNION {[1..k -> RaceLines] : k \in 1..MaxDocLines}

\* The line the user types in.
TypedLines == { <<"b">> }

InitRace ==
    /\ doc \in RaceDocs
    /\ docBefore = doc
    /\ call = NoCall
    /\ result = NULL
    /\ replaceRangeCalls = <<>>
    /\ flow = [pc |-> "idle", apiKey |-> TRUE, requests |-> 0]

\* The document with the line inserted in front of line at.
insertLine(d, at, line) ==
    SubSeq(d, 1, at) \o <<line>> \o SubSeq(d, at + 1, Len(d))

\* The document without line at.
deleteLine(d, at) == SubSeq(d, 1, at) \o SubSeq(d, at + 2, Len(d))

\* The user inserts or deletes a line at or above the paragraph while the
\* flow is suspended at its await: nothing locks the editor.
UserEdit ==
    /\ flow.pc \in {"performRewrite", "performInspire"}
    /\ call.op \in {"coo-rewrite", "coo-inspire"}
    /\ \E at \in 0..flow.bounds.endLine :
        \/ \E line \in TypedLines :
            /\ doc' = insertLine(doc, at, line)
            /\ call' = [op |-> "userEdit", kind |-> "insert", line |-> at]
        \/ /\ lineCount(doc) > 1
           /\ doc' = deleteLine(doc, at)
           /\ call' = [op |-> "userEdit", kind |-> "delete", line |-> at]
    /\ UNCHANGED <<docBefore, result, replaceRangeCalls, flow>>

\* The completion resolves but the last target line is no longer in the
\* document: reading the length of its text throws inside the try block.
ReplaceThrows ==
    /\ flow.pc \in {"performRewrite", "performInspire"}
    /\ lastTargetLine(flow) >= lineCount(doc)
    /\ \E response \in ApiResponses :
        LET completion == chatCompletion(flow.apiKey, response)
        IN  /\ ~Threw(completion)
            /\ call' = [op |-> flow.pc,
                        line |-> flow.cursorLine,
                        current |-> doc,
                        startLine |-> flow.bounds.startLine,
                        endLine |-> flow.bounds.endLine,
                        response |-> response,
                        completion |-> completion,
                        error |-> Throws("TypeError")]
            /\ replaceRangeCalls' = <<>>
            /\ result' = Notice("TypeError")
            /\ flow' = Ended
            /\ UNCHANGED <<doc, docBefore>>

NextRace ==
    \/ RewriteCommand
    \/ RewriteResolves
    \/ RewriteFails
    \/ InspireCommand
    \/ InspireResolves
    \/ InspireFails
    \/ UserEdit
    \/ ReplaceThrows

SpecRace == InitRace /\ [][NextRace]_vars

-----------------------------------------------------------------------------
(* Properties of the race *)

\* The line numbers the command captured, read off the document before the
\* command: the paragraph around the cursor and, for a rewrite, the
\* annotation line below it.
capturedBounds == findParagraphBoundsNear(docBefore, call.line)

capturedLastLine ==
    IF call.op = "performRewrite"
    THEN findAnnotationLine(docBefore, capturedBounds.endLine).line
    ELSE capturedBounds.endLine

\* C27: whatever line the user inserted or deleted at or above the paragraph
\* while the completion was pending, the one replaceRange of the flow goes
\* from the start of the captured first line to the end of the current text
\* of the captured last line, and the document after it is the resumed
\* document with that range replaced.
C27_MutationAtCapturedLines ==
    ( /\ call.op \in {"performRewrite", "performInspire"}
      /\ replaceRangeCalls # <<>> )
        => /\ Len(replaceRangeCalls) = 1
           /\ replaceRangeCalls[1].fromLine = capturedBounds.startLine
           /\ replaceRangeCalls[1].fromCh = 0
           /\ replaceRangeCalls[1].toLine = capturedLastLine
           /\ replaceRangeCalls[1].toCh =
                  Len(getLine(call.current, capturedLastLine))
           /\ doc = applyCalls(call.current, replaceRangeCalls)

\* A rewrite has replaced a range that is not the original paragraph: the
\* user had inserted a line above it, so the typed line and the paragraph
\* were overwritten and the annotation line is still in the document.
C27_Witness ==
    /\ call.op = "performRewrite"
    /\ replaceRangeCalls # <<>>
    /\ call.current # docBefore
    /\ SubSeq(call.current, capturedBounds.startLine + 1, capturedLastLine + 1)
           # SubSeq(docBefore, capturedBounds.startLine + 1,
                    capturedLastLine + 1)
    /\ \E n \in 0..(lineCount(doc) - 1) :
           getLine(doc, n) = getLine(docBefore, capturedLastLine)

-----------------------------------------------------------------------------
(* Session specification: a composer opened on a selection, then phrases    *)
(* picked from the response, each appended below the captured paragraph     *)

MaxPicks == 2

InitSession ==
    /\ doc \in AppendDocs
    /\ docBefore = doc
    /\ call = NoCall
    /\ result = NULL
    /\ replaceRangeCalls = <<>>
    /\ flow = [pc |-> "idle", apiKey |-> TRUE, requests |-> 0]

\* The mouseup listener of enablePhrasePicking: the trimmed selection, when
\* it is not empty, is appended at the line the constructor captured.
PickPhrase ==
    /\ flow.pc = "composer"
    /\ flow.picks < MaxPicks
    /\ \E selectedText \in Phrases :
        /\ call' = Call("appendAnnotations", flow.paragraphEndLine,
                        <<selectedText>>, <<>>)
        /\ replaceRangeCalls' =
               appendAnnotationsCalls(doc, flow.paragraphEndLine,
                                      <<selectedText>>)
        /\ doc' = applyCalls(doc, replaceRangeCalls')
        /\ result' = Notice(<<"Added: ", selectedText>>)
        /\ flow' = [flow EXCEPT !.picks = @ + 1]
        /\ UNCHANGED docBefore

NextSession ==
    \/ DiscussCommand
    \/ PickPhrase

SpecSession == InitSession /\ [][NextSession]_vars

-----------------------------------------------------------------------------
(* Properties of the session *)

\* The lines of the original document below the paragraph and its
\* annotation line, if it has one.
linesBelow(d, e) ==
    IF findAnnotationLine(d, e) # NULL
    THEN SubSeq(d, e + 3, Len(d))
    ELSE SubSeq(d, e + 2, Len(d))

-----------------------------------------------------------------------------
(* Settings specification: the response language and translation language  *)
(* dropdowns of the settings tab, with the asynchronous tail of each        *)
(* change handler                                                           *)

MaxPending == 2

ResponseLanguages == {"en", "es", "fr", "zh", "ja"}

TranslateLanguages == {"English", "Spanish", "French", "Chinese", "Japanese"}

TRANSLATE_TO_RESPONSE_MAP ==
    [translateLang \in TranslateLanguages |->
        CASE translateLang = "English"  -> "en"
          [] translateLang = "Spanish"  -> "es"
          [] translateLang = "French"   -> "fr"
          [] translateLang = "Chinese"  -> "zh"
          [] translateLang = "Japanese" -> "ja"]

DEFAULT_SETTINGS == [responseLanguage |-> "en", translateLanguage |-> "Chinese"]

isLanguageConflict(responseLang, translateLang) ==
    TRANSLATE_TO_RESPONSE_MAP[translateLang] = responseLang

getDefaultTranslateLanguage(responseLang) ==
    IF responseLang = "en" THEN "Chinese" ELSE "English"

\* The options display() gives the translation dropdown.
translateOptionsFor(currentResponseLang) ==
    {opt \in TranslateLanguages :
        TRANSLATE_TO_RESPONSE_MAP[opt] # currentResponseLang}

\* The tab as display() leaves it with DEFAULT_SETTINGS. translateOptions
\* is what the translation dropdowns now in the container offer; saving,
\* reloading and rendering count the change handlers suspended at
\* saveSettings, at reloadDeveloperPrompt, and the display() calls
\* suspended at listPromptFiles.
InitSettings ==
    /\ doc = <<>>
    /\ docBefore = <<>>
    /\ call = NoCall
    /\ result = NULL
    /\ replaceRangeCalls = <<>>
    /\ flow = [pc |-> "settings",
               settings |-> DEFAULT_SETTINGS,
               responseDropdown |-> TRUE,
               translateOptions |->
                   translateOptionsFor(DEFAULT_SETTINGS.responseLanguage),
               saving |-> 0, reloading |-> 0, rendering |-> 0]

pendingHandlers == flow.saving + flow.reloading + flow.rendering

\* onChange of the response language dropdown, up to await saveSettings().
ChooseResponseLanguage ==
    /\ flow.pc = "settings"
    /\ flow.responseDropdown
    /\ pendingHandlers < MaxPending
    /\ \E newResponseLang \in ResponseLanguages :
        LET translateLang    == flow.settings.translateLanguage
            newTranslateLang ==
                IF isLanguageConflict(newResponseLang, translateLang)
                THEN getDefaultTranslateLanguage(newResponseLang)
                ELSE translateLang
        IN  /\ call' = [op |-> "responseLanguage.onChange",
                        value |-> newResponseLang]
            /\ flow' = [flow EXCEPT
                          !.settings = [responseLanguage |-> newResponseLang,
                                        translateLanguage |-> newTranslateLang],
                          !.saving = @ + 1]
    /\ UNCHANGED <<doc, docBefore, result, replaceRangeCalls>>

\* saveSettings() resolves in the response language handler, which goes on
\* to await reloadDeveloperPrompt().
SaveSettingsResolves ==
    /\ flow.pc = "settings"
    /\ flow.saving > 0
    /\ call' = [op |-> "saveSettings"]
    /\ flow' = [flow EXCEPT !.saving = @ - 1, !.reloading = @ + 1]
    /\ UNCHANGED <<doc, docBefore, result, replaceRangeCalls>>

\* reloadDeveloperPrompt() resolves; the handler calls display(), which
\* empties the container and awaits listPromptFiles.
ReloadResolves ==
    /\ flow.pc = "settings"
    /\ flow.reloading > 0
    /\ call' = [op |-> "reloadDeveloperPrompt"]
    /\ flow' = [flow EXCEPT !.reloading = @ - 1,
                            !.rendering = @ + 1,
                            !.responseDropdown = FALSE,
                            !.translateOptions = {}]
    /\ UNCHANGED <<doc, docBefore, result, replaceRangeCalls>>

\* listPromptFiles resolves in display(), which adds the settings, the two
\* dropdowns among them, from the settings as they are now.
DisplayRenders ==
    /\ flow.pc = "settings"
    /\ flow.rendering > 0
    /\ call' = [op |-> "display"]
    /\ flow' = [flow EXCEPT
                  !.rendering = @ - 1,
                  !.responseDropdown = TRUE,
                  !.translateOptions =
                      @ \cup translateOptionsFor(flow.settings.responseLanguage)]
    /\ UNCHANGED <<doc, docBefore, result, replaceRangeCalls>>

\* onChange of a translation dropdown in the container; its saveSettings()
\* is the end of the handler.
ChooseTranslateLanguage ==
    /\ flow.pc = "settings"
    /\ \E value \in flow.translateOptions :
        /\ call' = [op |-> "translateLanguage.onChange", value |-> value]
        /\ flow' = [flow EXCEPT !.settings.translateLanguage = value]
    /\ UNCHANGED <<doc, docBefore, result, replaceRangeCalls>>

NextSettings ==
    \/ ChooseResponseLanguage
    \/ SaveSettingsResolves
    \/ ReloadResolves
    \/ DisplayRenders
    \/ ChooseTranslateLanguage

SpecSettings == InitSettings /\ [][NextSettings]_vars

-----------------------------------------------------------------------------
(* Properties of the settings tab *)

\* C30: from DEFAULT_SETTINGS, whatever response languages and offered
\* translation languages are chosen, also while the save, reload and
\* re-render of an earlier change are pending, the translation language
\* never names the response language.
C30_NoLanguageConflict ==
    flow.pc = "settings"
        => ~isLanguageConflict(flow.settings.responseLanguage,
                               flow.settings.translateLanguage)

-----------------------------------------------------------------------------
(* Context specification: gatherSurroundingContext called once on a        *)
(* document long enough for a heading to lie above the window              *)

MaxContextLines == 12
MaxHeadings == 3
MaxParagraphLines == 2

Letters ==
    << "a", "b", "c", "d", "e", "f", "g", "h", "i", "j",
       "k", "l", "m", "n", "o", "p", "q", "r", "s", "t" >>

\* The line at index i when it is not a heading: a letter of its own, every
\* fourth line with a # and no whitespace, with seven #, or empty instead.
OtherLine(i) ==
    IF i % 4 = 1 THEN <<"#", Letters[i + 1]>>
    ELSE IF i % 4 = 2
    THEN <<"#", "#", "#", "#", "#", "#", "#", " ", Letters[i + 1]>>
    ELSE IF i % 4 = 3 THEN <<>>
    ELSE <<Letters[i + 1]>>

\* A heading at index i, of one, two or six #.
HeadingLine(i) ==
    IF i % 3 = 0 THEN <<"#", " ", Letters[i + 1]>>
    ELSE IF i % 3 = 1 THEN <<"#", "#", "\t", Letters[i + 1]>>
    ELSE <<"#", "#", "#", "#", "#", "#", " ", Letters[i + 1]>>

ContextDoc(n, headings) ==
    [k \in 1..n |->
        IF (k - 1) \in headings THEN HeadingLine(k - 1) ELSE OtherLine(k - 1)]

ContextDocs ==
    { ContextDoc(n, headings) :
          n \in 1..MaxContextLines,
          headings \in { h \in SUBSET (0..(MaxContextLines - 1)) :
                             Cardinality(h) <= MaxHeadings } }

InitContext ==
    /\ doc \in ContextDocs
    /\ docBefore = doc
    /\ call = NoCall
    /\ result = NULL
    /\ replaceRangeCalls = <<>>
    /\ flow = Idle

GatherSurroundingContext ==
    /\ NoCallYet
    /\ \E startLine \in 0..(lineCount(doc) - 1) :
       \E endLine \in startLine..
                      Min(lineCount(doc) - 1,
                          startLine + MaxParagraphLines - 1) :
        /\ call' = [op |-> "gatherSurroundingContext",
                    startLine |-> startLine, endLine |-> endLine]
        /\ result' = [parts |-> contextParts(doc, startLine, endLine),
                      text |-> gatherSurroundingContext(doc, startLine,
                                                        endLine)]
        /\ docBefore' = doc
        /\ replaceRangeCalls' = <<>>
        /\ UNCHANGED <<doc, flow>>

NextContext == GatherSurroundingContext

SpecContext == InitContext /\ [][NextContext]_vars

-----------------------------------------------------------------------------
(* Properties of the context gatherer *)

\* Index of the nearest line above s that starts with one to six # and
\* whitespace, -1 if there is none.
NearestHeadingAbove(d, s) ==
    IF \E i \in 0..(s - 1) : HeadingShape(getLine(d, i))
    THEN CHOOSE i \in 0..(s - 1) :
             /\ HeadingShape(getLine(d, i))
             /\ \A j \in (i + 1)..(s - 1) : ~HeadingShape(getLine(d, j))
    ELSE -1

\* The heading above s lies above the 10 lines before s.
FarHeading(d, s) ==
    /\ NearestHeadingAbove(d, s) >= 0
    /\ NearestHeadingAbove(d, s) < Max(0, s - 10)

\* The document lines held by the segments, in order.
RECURSIVE PartLines(_)
PartLines(parts) ==
    IF parts = <<>> THEN <<>>
    ELSE split(Head(parts), "\n") \o PartLines(Tail(parts))

Occurrences(lines, line) ==
    Cardinality({i \in 1..Len(lines) : lines[i] = line})

\* Number of non-empty ranges among the lines before s and the lines after e.
WindowSegments(d, s, e) ==
    (IF s > 0 THEN 1 ELSE 0) + (IF e < lineCount(d) - 1 THEN 1 ELSE 0)

\* C21: gatherSurroundingContext emits the nearest heading above s as a
\* leading segment of its own exactly when there is one and it lies more
\* than 10 lines above s; a nearer heading comes only with the lines before
\* s; either way the nearest heading is emitted exactly once.
C21_FarHeadingOwnSegment ==
    call.op = "gatherSurroundingContext"
        => LET s == call.startLine
               e == call.endLine
               h == NearestHeadingAbove(docBefore, s)
               windows == WindowSegments(docBefore, s, e)
           IN  /\ FarHeading(docBefore, s)
                      => /\ Len(result.parts) = windows + 1
                         /\ result.parts[1] = getLine(docBefore, h)
               /\ ~FarHeading(docBefore, s)
                      => Len(result.parts) = windows
               /\ h >= 0
                      => Occurrences(PartLines(result.parts),
                                     getLine(docBefore, h)) = 1

\* The only heading above line 11 is line 0: it leads, followed by the ten
\* lines before line 11.
C21_Witness ==
    /\ call.op = "gatherSurroundingContext"
    /\ call.startLine = 11
    /\ NearestHeadingAbove(docBefore, 11) = 0
    /\ result.parts[1] = getLine(docBefore, 0)
    /\ PartLines(result.parts) = <<getLine(docBefore, 0)>>
                                     \o SubSeq(docBefore, 2, 11)

\* C22: besides the far heading, the lines gatherSurroundingContext takes
\* are the lines max(0, s-10)..s-1 followed by the lines
\* e+1..min(lineCount-1, e+5), in document order, at most 10 and 5 of them
\* and none of s..e; the result is the segments joined and trimmed, and is
\* empty when both ranges are empty.
C22_WindowLines ==
    call.op = "gatherSurroundingContext"
        => LET s == call.startLine
               e == call.endLine
               windowParts == IF FarHeading(docBefore, s)
                              THEN Tail(result.parts)
                              ELSE result.parts
               before == SubSeq(docBefore, Max(0, s - 10) + 1, s)
               after  == SubSeq(docBefore, e + 2,
                                Min(lineCount(docBefore) - 1, e + 5) + 1)
           IN  /\ PartLines(windowParts) = before \o after
               /\ Len(before) <= 10
               /\ Len(after) <= 5
               /\ result.text = trim(join(result.parts, <<"\n", "\n">>))
               /\ (before = <<>> /\ after = <<>>) => result.text = <<>>

\* A two-line paragraph with one line before it and more than five after it:
\* six lines are taken.
C22_Witness ==
    /\ call.op = "gatherSurroundingContext"
    /\ call.startLine = 1
    /\ call.endLine = 2
    /\ call.endLine + 5 < lineCount(docBefore) - 1
    /\ PartLines(result.parts) = <<docBefore[1]>> \o SubSeq(docBefore, 4, 8)

-----------------------------------------------------------------------------
(* Formatter specification: formatInspireResponse applied to short raw *)
(* texts                                                                *)

MaxResponseLen == 5
MaxIndent == 3

ResponseAlphabet == {"-", " ", "a", "\n"}

RawTexts == Strings(ResponseAlphabet, MaxResponseLen)

InitFormat ==
    /\ doc = << <<>> >>
    /\ docBefore = doc
    /\ call \in {Call("none", indentSize, <<>>, text) :
                     indentSize \in 0..MaxIndent, text \in RawTexts}
    /\ result = NULL
    /\ replaceRangeCalls = <<>>
    /\ flow = Idle

\* formatInspireResponse(call.text, call.line)
FormatInspireResponse ==
    /\ call.op = "none"
    /\ call' = [call EXCEPT !.op = "formatInspireResponse"]
    /\ result' = formatInspireResponse(call.text, call.line)
    /\ replaceRangeCalls' = <<>>
    /\ UNCHANGED <<doc, docBefore, flow>>

NextFormat == FormatInspireResponse

SpecFormat == InitFormat /\ [][NextFormat]_vars

-----------------------------------------------------------------------------
(* Properties of the response formatter *)

NonBlank(line) == ~AllWhitespace(line)

\* Number of spaces at the start of the line.
RECURSIVE LeadingSpaces(_)
LeadingSpaces(line) ==
    IF line # <<>> /\ Head(line) = " " THEN 1 + LeadingSpaces(Tail(line))
    ELSE 0

\* C23: every line formatInspireResponse returns is indentSize spaces
\* followed by text starting with "- "; there is one output line for each
\* input line that is not blank, in order; a line that starts with "- "
\* once trimmed keeps its single marker, any other gets one.
C23_IndentedBullets ==
    call.op = "formatInspireResponse"
        => LET kept == SelectSeq(split(call.text, "\n"), NonBlank)
           IN  /\ Len(result) = Len(kept)
               /\ \A i \in 1..Len(result) :
                      LET text == SliceFrom(result[i], call.line)
                      IN  /\ LeadingSpaces(result[i]) = call.line
                          /\ startsWith(text, <<"-", " ">>)
                          /\ text = IF startsWith(trim(kept[i]), <<"-", " ">>)
                                    THEN trim(kept[i])
                                    ELSE <<"-", " ">> \o trim(kept[i])

\* A line with a marker and a line without one were both indented by two.
C23_Witness ==
    /\ call.op = "formatInspireResponse"
    /\ call.line = 2
    /\ call.text = <<"-", " ", "a", "\n", "a">>
    /\ result = << <<" ", " ", "-", " ", "a">>, <<" ", " ", "-", " ", "a">> >>

-----------------------------------------------------------------------------
(* The locator and the annotation lookup together *)

\* C28: bounds that findParagraphBoundsNear returns for a marker line i end
\* at line i-1, and findAnnotationLine of that end line is i: the annotation
\* line of the paragraph found is the line the call started on.
C28_FallbackFindsOwnMarker ==
    ( /\ call.op = "findParagraphBoundsNear"
      /\ MarkerShaped(getLine(doc, call.line))
      /\ result # NULL )
        => /\ result.endLine = call.line - 1
           /\ findAnnotationLine(doc, result.endLine) = [line |-> call.line]

\* The fallback was taken from a marker line right below a list item that
\* follows a plain line.
C28_Witness ==
    /\ call.op = "findParagraphBoundsNear"
    /\ call.line >= 2
    /\ MarkerShaped(getLine(doc, call.line))
    /\ isListItem(getLine(doc, call.line - 1))
    /\ ~AllWhitespace(getLine(doc, call.line - 2))
    /\ result = [startLine |-> call.line - 1, endLine |-> call.line - 1]

====
